---- MODULE Spec2Model ----
(***************************************************************************)
(* Query-understanding and safe-query-synthesis core of the hybrid bidding *)
(* QA assistant: IR -> SQL synthesis (sql_engine/ir2sql.py with            *)
(* sql_engine/db_schema.py) and intent routing (router/query_router.py).   *)
(*                                                                         *)
(* Python values are modelled as tagged records so that values of          *)
(* different Python types can be compared ("1" = 1 is False in Python,     *)
(* not an error).  A dict is a function whose domain is its key set.       *)
(* A str that the code searches or splits is a sequence of tokens.         *)
(***************************************************************************)
EXTENDS Integers, Sequences, FiniteSets, TLC

VARIABLES
    tables,          \* DBSchema._tables
    allowed_ops,     \* IR2SQL.allowed_ops
    max_limit,       \* IR2SQL.max_limit
    ir,              \* the dict handed to IR2SQL.build
    buildResult,     \* outcome of IR2SQL.build: SqlBuildResult or the raised error
    router_cfg,      \* QueryRouter._router_cfg
    llm_classifier,  \* QueryRouter._llm_classifier: None or the injected callable
    query,           \* the query of the current call of QueryRouter.route
    routeResult,     \* what that call returned; NotRouted while it is pending
    llmCalls,        \* the prompts that call gave to the classifier
    calls,           \* number of calls of route completed by this router
    llmLabel,       \* what a call of QueryRouter._safe_llm_classify returned
    intentRoute,    \* what a call of QueryRouter._intent_to_route returned
    schema_validator,    \* the attributes of the IRSchemaValidator
    business_validator,  \* the attributes of the BusinessValidator
    schemaResult,    \* outcome of the last call of validate on ir
    bizResult,       \* outcome of the last call of validate_ir on ir
    validations,     \* number of validator calls made on ir
    llm_client,      \* LlmIRGenerator._llm_client: None or the injected callable
    genResult,       \* outcome of LlmIRGenerator.generate
    llmReply,        \* what the client did when generate called it
    threshold,       \* ConfidenceChecker.threshold, in hundredths
    confInput,       \* the ConfidenceInput handed to evaluate
    confResult,      \* outcome of ConfidenceChecker.evaluate
    clientCalls,     \* number of calls generate made of its client
    uncertainty_response,  \* AnswerGenerator.uncertainty_response
    answerInput,     \* the arguments handed to AnswerGenerator.generate
    answerResult,    \* the Answer it returned
    answerCalls,     \* the prompts it gave to its client
    sql_executor,    \* the attributes of the SqlExecutor
    statement,       \* the sql handed to SqlExecutor.execute
    sent,            \* the statements executed on the connection
    execResult,      \* outcome of SqlExecutor.execute
    requests         \* the requests in query_endpoint, each with its locals

buildVars == <<tables, allowed_ops, max_limit, ir, buildResult>>
routerVars ==
    <<router_cfg, llm_classifier, query, routeResult, llmCalls, calls, llmLabel, intentRoute>>
validVars == <<schema_validator, business_validator, schemaResult, bizResult, validations>>
genVars == <<llm_client, genResult, llmReply, clientCalls>>
confVars == <<threshold, confInput, confResult>>
answerVars == <<uncertainty_response, answerInput, answerResult, answerCalls>>
execVars == <<sql_executor, statement, sent, execResult>>
laterVars == <<answerVars, execVars, requests>>
vars == <<buildVars, routerVars, validVars, genVars, confVars, laterVars>>

-----------------------------------------------------------------------------
(* Bounds *)

MaxFilters == 2      \* longest filters list given to build
MaxQueryLen == 2     \* longest query, in words
MaxCalls == 2        \* calls of route made on one router
MaxValidations == 3  \* validator calls made on one IR
MaxScores == 2       \* longest list of retrieval or re-rank scores
MaxCitations == 2    \* longest list of citations handed to the answer generator

-----------------------------------------------------------------------------
(* Python values *)

PNone == [t |-> "none"]
PInt(n) == [t |-> "int", n |-> n]
PFloat(n) == [t |-> "float", n |-> n]          \* the float n.0
PBool(b) == [t |-> "bool", b |-> b]
PStr(s) == [t |-> "str", s |-> s]
PList(xs) == [t |-> "list", xs |-> xs]

\* marks a key that the dict does not have
Absent == [t |-> "absent"]

\* dict.get(key) with the default None
Get(d, key) == IF key \in DOMAIN d THEN d[key] ELSE PNone

\* truth value of an object (bool(v), the test made by `not v` and `v or w`)
Truthy(v) ==
    CASE v.t = "none" -> FALSE
      [] v.t = "int" -> v.n # 0
      [] v.t = "float" -> v.n # 0
      [] v.t = "bool" -> v.b
      [] v.t = "str" -> v.s # ""
      [] v.t = "list" -> v.xs # <<>>

\* isinstance(v, int): bool is a subclass of int
IsInstanceInt(v) == v.t \in {"int", "bool"}

\* the number an int or bool compares as
NumVal(v) == IF v.t = "bool" THEN (IF v.b THEN 1 ELSE 0) ELSE v.n

\* str(v) / f"{v}" for the scalar values the model uses
PyStr(v) ==
    CASE v.t = "none" -> "None"
      [] v.t = "int" -> ToString(v.n)
      [] v.t = "float" -> ToString(v.n) \o ".0"
      [] v.t = "bool" -> (IF v.b THEN "True" ELSE "False")
      [] v.t = "str" -> v.s
      [] v.t = "list" -> "[...]"

\* stands for the backquote character U+0060, which a TLA+ string cannot hold
BQ == "'"

\* the identifier written without the backquotes
Quote_bare(c) == c

\* f"`{c}`"
Quote(c) == BQ \o c \o BQ

RECURSIVE JoinStr(_, _)
\* sep.join(parts) for a sequence of strings
JoinStr(parts, sep) ==
    IF parts = <<>> THEN ""
    ELSE IF Len(parts) = 1 THEN parts[1]
    ELSE parts[1] \o sep \o JoinStr(Tail(parts), sep)

RECURSIVE Flatten(_)
\* concatenation of a sequence of sequences
Flatten(ss) == IF ss = <<>> THEN <<>> ELSE Head(ss) \o Flatten(Tail(ss))

-----------------------------------------------------------------------------
(* Schema Registry *)

\* TableSchema.has_column: col in self.columns
has_column(ts, col) == col.t = "str" /\ \E i \in 1..Len(ts.columns) : ts.columns[i] = col.s

\* DBSchema.get
get(tbls, table) ==
    IF table.t = "str" /\ table.s \in DOMAIN tbls THEN tbls[table.s] ELSE PNone

\* ensure_table answering an unknown name with the default table
ensure_table_default(tbls, table) ==
    LET ts == get(tbls, table)
    IN [raised |-> FALSE, error |-> "",
        ts |-> IF ts = PNone THEN tbls["tender_project"] ELSE ts]

\* DBSchema.ensure_table: the TableSchema, or the ValueError
ensure_table(tbls, table) ==
    LET ts == get(tbls, table)
    IN IF ts = PNone THEN [raised |-> TRUE, error |-> "ValueError: unknown table", ts |-> PNone]
       ELSE [raised |-> FALSE, error |-> "", ts |-> ts]

-----------------------------------------------------------------------------
(* Query Synthesizer: IR2SQL.build *)

Skipped == [emit |-> FALSE, part |-> <<>>, params |-> <<>>]

\* the allowed-operator test with the test left out
op_allowed_any(op, ops) == TRUE

\* op in self.allowed_ops
op_allowed(op, ops) == op.t = "str" /\ op.s \in ops

\* the between branch handing over the pair in reverse
between_clause_swapped(field, value) ==
    [emit |-> TRUE,
     part |-> <<Quote(field.s), "BETWEEN", "%s", "AND", "%s">>,
     params |-> <<value.xs[2], value.xs[1]>>]

\* the between branch: f"`{field}` BETWEEN %s AND %s" and both pair elements
between_clause(field, value) ==
    [emit |-> TRUE,
     part |-> <<Quote(field.s), "BETWEEN", "%s", "AND", "%s">>,
     params |-> <<value.xs[1], value.xs[2]>>]

\* the like branch: f"`{field}` LIKE %s" and str(value)
like_clause(field, value) ==
    [emit |-> TRUE,
     part |-> <<Quote(field.s), "LIKE", "%s">>,
     params |-> <<PStr(PyStr(value))>>]

\* the branch of the other operators writing the value into the text
binary_clause_inline(field, op, value) ==
    [emit |-> TRUE,
     part |-> <<Quote(field.s), op.s, PyStr(value)>>,
     params |-> <<>>]

\* the branch of the other operators: f"`{field}` {op} %s" and the value
binary_clause(field, op, value) ==
    [emit |-> TRUE,
     part |-> <<Quote(field.s), op.s, "%s">>,
     params |-> <<value>>]

\* one pass of the loop over ir["filters"]: the WHERE part and the parameters
\* the filter adds, or nothing when a `continue` is taken
filter_clause(cond, table_schema, ops) ==
    LET field == Get(cond, "field")
        op == Get(cond, "op")
        value == Get(cond, "value")
    IN IF ~Truthy(field) \/ ~Truthy(op) THEN Skipped
       ELSE IF ~op_allowed(op, ops) THEN Skipped
       ELSE IF ~has_column(table_schema, field) THEN Skipped
       ELSE IF op = PStr("between")
            THEN IF ~(value.t = "list") \/ Len(value.xs) # 2 THEN Skipped
                 ELSE between_clause(field, value)
       ELSE IF op = PStr("like") THEN like_clause(field, value)
       ELSE binary_clause(field, op, value)

RECURSIVE JoinAnd(_)
\* " AND ".join(where_sql_parts), as tokens
JoinAnd(parts) ==
    IF parts = <<>> THEN <<>>
    ELSE IF Len(parts) = 1 THEN parts[1]
    ELSE parts[1] \o <<"AND">> \o JoinAnd(Tail(parts))

\* where_sql: empty, or " WHERE " followed by the joined parts
where_sql(where_sql_parts) ==
    IF where_sql_parts # <<>> THEN <<"WHERE">> \o JoinAnd(where_sql_parts) ELSE <<>>

\* min(limit, max_limit): the first argument unless the second is smaller
PyMin(a, b) == IF NumVal(b) < NumVal(a) THEN b ELSE a

\* the row limit written after LIMIT
row_limit(d, maxl) ==
    LET limit == Get(d, "limit")
    IN IF limit = PNone \/ ~IsInstanceInt(limit) \/ NumVal(limit) <= 0
       THEN PInt(maxl)
       ELSE PyMin(limit, PInt(maxl))

\* ", ".join(f"`{c}`" for c in select_cols), as tokens
cols_sql(select_cols) ==
    [i \in 1..Len(select_cols) |->
        IF i < Len(select_cols) THEN Quote(select_cols[i].s) \o ","
        ELSE Quote(select_cols[i].s)]

Raise(msg) == [status |-> "error", error |-> msg, sql |-> <<>>, params |-> <<>>]

\* IR2SQL.build: the SqlBuildResult (sql as the sequence of its
\* space-separated tokens) or the exception raised
build(d, tbls, ops, maxl) ==
    LET table_name == Get(d, "table")
    IN IF ~Truthy(table_name)
       THEN Raise("ValueError: IR missing 'table' field for SQL generation.")
       ELSE
       LET ensured == ensure_table(tbls, table_name)
           table_schema == ensured.ts
           select_cols == IF Truthy(Get(d, "select")) THEN Get(d, "select")
                          ELSE PList(<<PStr("*")>>)
           invalid == SelectSeq(select_cols.xs, LAMBDA c : ~has_column(table_schema, c))
           filters == IF Truthy(Get(d, "filters")) THEN Get(d, "filters").xs ELSE <<>>
           passes == [i \in 1..Len(filters) |-> filter_clause(filters[i], table_schema, ops)]
           emitted == SelectSeq(passes, LAMBDA r : r.emit)
           where_sql_parts == [i \in 1..Len(emitted) |-> emitted[i].part]
           params == Flatten([i \in 1..Len(emitted) |-> emitted[i].params])
           cols == IF select_cols = PList(<<PStr("*")>>) THEN <<"*">>
                   ELSE cols_sql(select_cols.xs)
       IN IF ensured.raised THEN Raise(ensured.error)
          ELSE IF select_cols # PList(<<PStr("*")>>) /\ invalid # <<>>
          THEN Raise("ValueError: invalid select columns")
          ELSE [status |-> "ok", error |-> "",
                sql |-> <<"SELECT">> \o cols \o <<"FROM", PyStr(table_name)>>
                        \o where_sql(where_sql_parts)
                        \o <<"LIMIT", PyStr(row_limit(d, maxl))>>,
                params |-> params]

\* the str the token sequence stands for
SqlText(tokens) == JoinStr(tokens, " ")

-----------------------------------------------------------------------------
(* Intent Router: QueryRouter *)

(* A query is the sequence of its words.  The words the rules look for are   *)
(* written in pinyin, a TLA+ string holding ASCII only:                      *)
(*   zhengce 政策  fuchi 扶持  guifan 规范  banfa 办法  tongzhi 通知         *)
(*   tiaoli 条例  yuqing 舆情  koubei 口碑  fumian 负面  fengxian 风险       *)
(*   tousu 投诉  yulun 舆论  zhaobiao 招标  zhongbiao 中标  toubiao 投标     *)
(*   xiangmu 项目  biaoduan 标段  butie 补贴  youhui 优惠  gongsi 公司       *)
(*   qiye 企业  gongyingshang 供应商  changshang 厂商  jiage 价格            *)
(*   baojia 报价  hangqing 行情  danjia 单价  chengben 成本                  *)
(* No keyword is part of another, so a query contains a keyword iff one of   *)
(* its words is the keyword.                                                 *)

\* Route(str, Enum)
Route_RAG == "rag"
Route_SQL == "sql"
Route_HYBRID == "hybrid"
Route_OTHER == "other"

\* the keyword tuples of _rule_based_route, in the order of the code
PolicyKeywords == {"zhengce", "fuchi", "guifan", "banfa", "tongzhi", "tiaoli"}
OpinionKeywords == {"yuqing", "koubei", "fumian", "fengxian", "tousu", "yulun"}
TenderKeywords == {"zhaobiao", "zhongbiao", "toubiao", "xiangmu", "biaoduan"}
HybridKeywords == {"zhengce", "fuchi", "butie", "youhui"}
CompanyKeywords == {"gongsi", "qiye", "gongyingshang", "changshang"}
PriceKeywords == {"jiage", "baojia", "hangqing", "danjia", "chengben"}

\* str.lower() of a word: only Latin capitals change
LowerWord(w) == IF w = "GDP" THEN "gdp" ELSE w

\* query.lower()
Lower(q) == [i \in 1..Len(q) |-> LowerWord(q[i])]

\* any(k in q for k in keywords)
AnyIn(keywords, q) == \E i \in 1..Len(q) : q[i] \in keywords

RouteTriple(intent, entity, route) == [intent |-> intent, entity |-> entity, route |-> route]

\* the rules with the opinion group tried before the policy group
rule_based_route_opinion_first(qry) ==
    LET q == Lower(qry)
    IN IF AnyIn(OpinionKeywords, q) THEN RouteTriple("opinion_query", PStr("opinion"), Route_RAG)
       ELSE IF AnyIn(PolicyKeywords, q) THEN RouteTriple("policy_query", PStr("policy"), Route_RAG)
       ELSE IF AnyIn(TenderKeywords, q)
            THEN IF AnyIn(HybridKeywords, q)
                 THEN RouteTriple("hybrid_query", PStr("tender"), Route_HYBRID)
                 ELSE RouteTriple("tender_query", PStr("tender"), Route_SQL)
       ELSE IF AnyIn(CompanyKeywords, q) THEN RouteTriple("company_query", PStr("company"), Route_SQL)
       ELSE IF AnyIn(PriceKeywords, q) THEN RouteTriple("items_query", PStr("price"), Route_SQL)
       ELSE RouteTriple("general_query", PNone, Route_RAG)

\* the rules answering an unmatched query with a route that is not declared
rule_based_route_undeclared_default(qry) ==
    LET q == Lower(qry)
    IN IF AnyIn(PolicyKeywords, q) THEN RouteTriple("policy_query", PStr("policy"), Route_RAG)
       ELSE IF AnyIn(OpinionKeywords, q) THEN RouteTriple("opinion_query", PStr("opinion"), Route_RAG)
       ELSE IF AnyIn(TenderKeywords, q)
            THEN IF AnyIn(HybridKeywords, q)
                 THEN RouteTriple("hybrid_query", PStr("tender"), Route_HYBRID)
                 ELSE RouteTriple("tender_query", PStr("tender"), Route_SQL)
       ELSE IF AnyIn(CompanyKeywords, q) THEN RouteTriple("company_query", PStr("company"), Route_SQL)
       ELSE IF AnyIn(PriceKeywords, q) THEN RouteTriple("items_query", PStr("price"), Route_SQL)
       ELSE RouteTriple("general_query", PNone, "general")

\* the rules with the company group tried before the opinion group
rule_based_route_company_first(qry) ==
    LET q == Lower(qry)
    IN IF AnyIn(PolicyKeywords, q) THEN RouteTriple("policy_query", PStr("policy"), Route_RAG)
       ELSE IF AnyIn(CompanyKeywords, q) THEN RouteTriple("company_query", PStr("company"), Route_SQL)
       ELSE IF AnyIn(OpinionKeywords, q) THEN RouteTriple("opinion_query", PStr("opinion"), Route_RAG)
       ELSE IF AnyIn(TenderKeywords, q)
            THEN IF AnyIn(HybridKeywords, q)
                 THEN RouteTriple("hybrid_query", PStr("tender"), Route_HYBRID)
                 ELSE RouteTriple("tender_query", PStr("tender"), Route_SQL)
       ELSE IF AnyIn(PriceKeywords, q) THEN RouteTriple("items_query", PStr("price"), Route_SQL)
       ELSE RouteTriple("general_query", PNone, Route_RAG)

\* QueryRouter._rule_based_route: (intent, entity, route)
rule_based_route(qry) ==
    LET q == Lower(qry)
    IN IF AnyIn(PolicyKeywords, q) THEN RouteTriple("policy_query", PStr("policy"), Route_RAG)
       ELSE IF AnyIn(OpinionKeywords, q) THEN RouteTriple("opinion_query", PStr("opinion"), Route_RAG)
       ELSE IF AnyIn(TenderKeywords, q)
            THEN IF AnyIn(HybridKeywords, q)
                 THEN RouteTriple("hybrid_query", PStr("tender"), Route_HYBRID)
                 ELSE RouteTriple("tender_query", PStr("tender"), Route_SQL)
       ELSE IF AnyIn(CompanyKeywords, q) THEN RouteTriple("company_query", PStr("company"), Route_SQL)
       ELSE IF AnyIn(PriceKeywords, q) THEN RouteTriple("items_query", PStr("price"), Route_SQL)
       ELSE RouteTriple("general_query", PNone, Route_RAG)

\* QueryRouter._intent_to_route
intent_to_route(cfg, intent) ==
    LET intent_map == IF "intent_map" \in DOMAIN cfg THEN cfg["intent_map"] ELSE <<>>
        conf == IF intent \in DOMAIN intent_map THEN intent_map[intent] ELSE <<>>
        route == IF Truthy(Get(conf, "route")) THEN Get(conf, "route")
                 ELSE Get(conf, "router")
    IN IF route \in {PStr(Route_RAG), PStr(Route_SQL), PStr(Route_HYBRID)} THEN route.s ELSE Route_OTHER

RECURSIVE LStrip(_)
LStrip(cs) == IF cs # <<>> /\ Head(cs) \in {" ", "\n"} THEN LStrip(Tail(cs)) ELSE cs

RECURSIVE RStrip(_)
RStrip(cs) ==
    IF cs # <<>> /\ cs[Len(cs)] \in {" ", "\n"} THEN RStrip(SubSeq(cs, 1, Len(cs) - 1))
    ELSE cs

\* str.strip() of a text given as its pieces (blanks, line ends, words)
Strip(cs) == JoinStr(RStrip(LStrip(cs)), "")

\* the prompt of _safe_llm_classify: the fixed label list and the query
ClassifyPrompt(qry) ==
    [labels |-> <<"policy_query", "opinion_query", "tender_query", "company_query",
                  "items_query", "hybrid_query">>,
     query |-> qry]

\* QueryRouter._safe_llm_classify, the classifier answering with reply:
\* the stripped label, or None when the call raised
safe_llm_classify(reply) ==
    IF reply.raises THEN PNone ELSE PStr(Strip(reply.text))

\* QueryRouter.route, the classifier (if called) answering with reply:
\* the RouteResult and the prompts given to the classifier
route(qry, classifier, cfg, reply) ==
    LET rule == rule_based_route(qry)
        ask == classifier # PNone /\ rule.route = Route_OTHER
        llm_label == IF ask THEN safe_llm_classify(reply) ELSE PNone
        taken == ask /\ Truthy(llm_label)
    IN [result |-> [route |-> IF taken THEN intent_to_route(cfg, llm_label.s) ELSE rule.route,
                    intent |-> IF taken THEN llm_label.s ELSE rule.intent,
                    entity_type |-> rule.entity],
        prompts |-> IF ask THEN <<ClassifyPrompt(qry)>> ELSE <<>>]

-----------------------------------------------------------------------------
(* Logger: logging/logger.py *)

Returned == [raised |-> FALSE, error |-> ""]
Raised(error) == [raised |-> TRUE, error |-> error]

\* SimpleLogger.debug/info/warning/error(msg, **extra), called with the given
\* number of positional arguments: the methods take msg and keyword arguments
\* only, so a call that hands over format arguments by position raises
logger_call(method, positional) ==
    IF positional > 1
    THEN Raised("TypeError: SimpleLogger." \o method \o "() takes 2 positional arguments but "
                    \o ToString(positional + 1) \o " were given")
    ELSE Returned

-----------------------------------------------------------------------------
(* IR Validator, structural: IRSchemaValidator *)

\* {} and the test for a dict (a value that is not a dict carries its type tag)
EmptyDict == [k \in {} |-> PNone]
IsDict(v) == "t" \notin DOMAIN v

\* x in xs, for a list of str
InList(x, xs) == x.t = "str" /\ \E i \in 1..Len(xs) : xs[i] = x.s

\* repr of a list of str: ['a', 'b']
PyReprList(xs) == "[" \o JoinStr([i \in 1..Len(xs) |-> "'" \o xs[i] \o "'"], ", ") \o "]"

RECURSIVE Split(_, _)
\* str.split(sep) of a text given as its pieces: the pieces between separators
Split(cs, sep) ==
    IF \A i \in 1..Len(cs) : cs[i] # sep THEN <<cs>>
    ELSE LET k == CHOOSE i \in 1..Len(cs) : cs[i] = sep /\ \A j \in 1..(i - 1) : cs[j] # sep
         IN <<SubSeq(cs, 1, k - 1)>> \o Split(SubSeq(cs, k + 1, Len(cs)), sep)

\* a str kept as its pieces, for the texts the code splits
PText(cs) == [t |-> "str", cs |-> cs]

\* IRSchemaValidator._parse_enum: "ENUM[a, b, c]" -> ["a", "b", "c"]; the
\* declaration is given as its pieces: "ENUM[", names, "," and " ", and the
\* last character, which the slice [len("ENUM["):-1] cuts off
parse_enum(enum_decl) ==
    IF enum_decl.t # "str" \/ enum_decl.cs = <<>> \/ Head(enum_decl.cs) # "ENUM[" THEN <<>>
    ELSE LET inner == SubSeq(enum_decl.cs, 2, Len(enum_decl.cs) - 1)
             vs == Split(inner, ",")
             stripped == [i \in 1..Len(vs) |-> Strip(vs[i])]
         IN SelectSeq(stripped, LAMBDA v : v # "")

\* one entry of errors per check the filter violates, in the order of the code
filter_errors(cond, idx, v) ==
    LET field == Get(cond, "field")
        op == Get(cond, "op")
        value == Get(cond, "value")
        at == "filters[" \o ToString(idx) \o "]"
        e_field == IF ~Truthy(field) THEN <<at \o ".field is required">> ELSE <<>>
        e_op == IF ~Truthy(op) THEN <<at \o ".op is required">>
                ELSE IF ~InList(op, v.allowed_ops)
                THEN <<at \o ".op '" \o PyStr(op) \o "' is not in allowed_ops="
                          \o PyReprList(v.allowed_ops)>>
                ELSE <<>>
        e_between ==
            IF op = PStr("between")
               /\ ~(/\ value.t = "list"
                    /\ Len(value.xs) = 2
                    /\ \A i \in 1..Len(value.xs) : value.xs[i] # PNone)
            THEN <<at \o ".value for 'between' must be 2-element list/tuple">>
            ELSE <<>>
        e_like == IF op = PStr("like") /\ ~v.allow_fuzzy
                  THEN <<"fuzzy search 'like' is disabled by rules.yaml">>
                  ELSE <<>>
    IN e_field \o e_op \o e_between \o e_like

\* IRSchemaValidator._validate_single_filter: the entries it appends to errors,
\* or the AttributeError of cond.get when the entry is not a dict
validate_single_filter(cond, idx, v) ==
    IF ~IsDict(cond)
    THEN [raised |-> TRUE, error |-> "AttributeError: object has no attribute 'get'",
          errors |-> <<>>]
    ELSE [raised |-> FALSE, error |-> "", errors |-> filter_errors(cond, idx, v)]

\* the errors of validate: steps 1) to 3) of the code, in its order
schema_errors(d, v) ==
    LET missing == SelectSeq(v.required_fields, LAMBDA field : field \notin DOMAIN d)
        e_required == [i \in 1..Len(missing) |-> "missing required field: " \o missing[i]]
        query_type == Get(d, "query_type")
        enum_values == parse_enum(v.query_type_decl)
        e_query_type ==
            IF enum_values # <<>> /\ ~InList(query_type, enum_values)
            THEN <<"invalid query_type: " \o PyStr(query_type) \o ", allowed="
                      \o PyReprList(enum_values)>>
            ELSE <<>>
        filters == IF "filters" \in DOMAIN d THEN d["filters"] ELSE PList(<<>>)
        e_filters ==
            IF filters.t # "list" THEN <<"filters must be a list">>
            ELSE (IF Len(filters.xs) > v.max_filters
                  THEN <<"too many filters: " \o ToString(Len(filters.xs))
                            \o " > max_filters=" \o ToString(v.max_filters)>>
                  ELSE <<>>)
                 \o Flatten([i \in 1..Len(filters.xs) |->
                                validate_single_filter(filters.xs[i], i - 1, v).errors])
    IN e_required \o e_query_type \o e_filters

SchemaValidationResult(ok, errors) ==
    [raised |-> FALSE, error |-> "", ok |-> ok, errors |-> errors]
SchemaValidationRaised(error) ==
    [raised |-> TRUE, error |-> error, ok |-> FALSE, errors |-> <<>>]

\* IRSchemaValidator.validate: the SchemaValidationResult, or the exception
\* that leaves the call (of a filter entry that is no dict, or of the log call)
validate(d, v) ==
    LET filters == IF "filters" \in DOMAIN d THEN d["filters"] ELSE PList(<<>>)
        broken == IF filters.t # "list" THEN <<>>
                  ELSE SelectSeq([i \in 1..Len(filters.xs) |->
                                     validate_single_filter(filters.xs[i], i - 1, v)],
                                 LAMBDA r : r.raised)
        errors == schema_errors(d, v)
        ok == errors = <<>>
        logged == IF ok THEN logger_call("debug", 1) ELSE logger_call("warning", 2)
    IN IF broken # <<>> THEN SchemaValidationRaised(broken[1].error)
       ELSE IF logged.raised THEN SchemaValidationRaised(logged.error)
       ELSE SchemaValidationResult(ok, errors)

-----------------------------------------------------------------------------
(* IR Validator, business: BusinessValidator *)

\* a value an order comparison with a float accepts
IsNumber(v) == ~IsDict(v) /\ v.t \in {"int", "float", "bool"}

\* the strings the date check compares, in ascending order of str comparison
LexOrder == <<"12/31/2023", "2023-06-30", "2024-01-01", "2024-12-31", "20240101">>

\* a > b for two str of LexOrder
StrGreater(a, b) ==
    \E i, j \in 1..Len(LexOrder) : LexOrder[i] = a /\ LexOrder[j] = b /\ i > j

\* step 1) of validate_ir: the amount_range warnings, or the TypeError of an
\* order comparison with a bound that is no number
amount_warnings(amount_range, bv) ==
    LET min_v == Get(amount_range, "min")
        max_v == Get(amount_range, "max")
        w_min == IF min_v # PNone /\ NumVal(min_v) < bv.amount_min
                 THEN <<"amount.min=" \o PyStr(min_v) \o " < configured min_value="
                           \o PyStr(PFloat(bv.amount_min)) \o ", clipped.">>
                 ELSE <<>>
        w_max == IF max_v # PNone /\ NumVal(max_v) > bv.amount_max
                 THEN <<"amount.max=" \o PyStr(max_v) \o " > configured max_value="
                           \o PyStr(PFloat(bv.amount_max)) \o ", clipped.">>
                 ELSE <<>>
        w_swap == IF min_v # PNone /\ max_v # PNone /\ NumVal(min_v) > NumVal(max_v)
                  THEN <<"amount_range.min > amount_range.max, will be swapped.">>
                  ELSE <<>>
    IN IF (min_v # PNone /\ ~IsNumber(min_v)) \/ (max_v # PNone /\ ~IsNumber(max_v))
       THEN [raised |-> TRUE, error |-> "TypeError: '<' not supported between instances",
             warnings |-> <<>>]
       ELSE [raised |-> FALSE, error |-> "", warnings |-> w_min \o w_max \o w_swap]

\* step 2) of validate_ir: the date_range warning
date_warnings(date_range) ==
    LET start == Get(date_range, "publish_start")
        end == Get(date_range, "publish_end")
    IN IF Truthy(start) /\ Truthy(end) /\ StrGreater(PyStr(start), PyStr(end))
       THEN <<"date_range.publish_start > publish_end.">>
       ELSE <<>>

BusinessValidationResult(ok, warnings) ==
    [raised |-> FALSE, error |-> "", ok |-> ok, warnings |-> warnings]
BusinessValidationRaised(error) ==
    [raised |-> TRUE, error |-> error, ok |-> FALSE, warnings |-> <<>>]

\* BusinessValidator.validate_ir: the BusinessValidationResult, or the
\* exception that leaves the call
validate_ir(d, bv) ==
    LET structured_conditions ==
            IF "structured_conditions" \in DOMAIN d THEN d["structured_conditions"]
            ELSE EmptyDict
    IN IF ~IsDict(structured_conditions)
       THEN BusinessValidationRaised("AttributeError: object has no attribute 'get'")
       ELSE
       LET amount_range == Get(structured_conditions, "amount_range")
           date_range == Get(structured_conditions, "date_range")
           amount == IF IsDict(amount_range) THEN amount_warnings(amount_range, bv)
                     ELSE [raised |-> FALSE, error |-> "", warnings |-> <<>>]
           dates == IF IsDict(date_range) THEN date_warnings(date_range) ELSE <<>>
           warnings == amount.warnings \o dates
           ok == warnings = <<>>
           logged == IF ok THEN logger_call("debug", 1) ELSE logger_call("info", 2)
       IN IF amount.raised THEN BusinessValidationRaised(amount.error)
          ELSE IF logged.raised THEN BusinessValidationRaised(logged.error)
          ELSE BusinessValidationResult(ok, warnings)

-----------------------------------------------------------------------------
(* Confidence Fuser: ConfidenceChecker *)

(* A score is kept in hundredths: 90 stands for 0.9, and count / 50.0 is     *)
(* 2 * count hundredths exactly.                                             *)

ConfidenceInput(retriever_scores, reranker_scores, sql_row_count) ==
    [retriever_scores |-> retriever_scores, reranker_scores |-> reranker_scores,
     sql_row_count |-> sql_row_count]

RECURSIVE PyMax(_)
\* max(xs) of a non-empty list of numbers
PyMax(xs) ==
    IF Len(xs) = 1 THEN xs[1]
    ELSE LET m == PyMax(Tail(xs)) IN IF m > xs[1] THEN m ELSE xs[1]

\* the sub-scores evaluate collects, in the order of the code
sub_scores(inputs) ==
    LET retrieval == IF Truthy(inputs.retriever_scores)
                     THEN <<PyMax(inputs.retriever_scores.xs)>> ELSE <<>>
        rerank == IF Truthy(inputs.reranker_scores)
                  THEN <<PyMax(inputs.reranker_scores.xs)>> ELSE <<>>
        rows == IF inputs.sql_row_count # PNone
                THEN LET count == PyMax(<<0, inputs.sql_row_count.n>>)
                         sql_score == IF 2 * count < 100 THEN 2 * count ELSE 100
                     IN <<sql_score>>
                ELSE <<>>
    IN retrieval \o rerank \o rows

ConfidenceResult(score, is_confident) ==
    [raised |-> FALSE, error |-> "", score |-> score, is_confident |-> is_confident]
ConfidenceRaised(error) ==
    [raised |-> TRUE, error |-> error, score |-> 0, is_confident |-> FALSE]

\* ConfidenceChecker.evaluate: the ConfidenceResult, or the exception that
\* leaves the call; the debug call hands over its four format arguments by
\* position
evaluate(inputs, min_score) ==
    LET scores == sub_scores(inputs)
        final_score == IF scores # <<>> THEN PyMax(scores) ELSE 0
        is_confident == final_score >= min_score
        logged == logger_call("debug", 5)
    IN IF logged.raised THEN ConfidenceRaised(logged.error)
       ELSE ConfidenceResult(final_score, is_confident)

-----------------------------------------------------------------------------
(* IR Synthesizer: LlmIRGenerator *)

(* Besides the words, a query may hold the pieces " " (a blank) and ","      *)
(* (standing for the fullwidth comma U+FF0C, which a TLA+ string cannot      *)
(* hold); the str is the pieces written one after the other.                 *)
FullwidthComma == ","

\* the fields of the dataclass UnifiedQueryIR: those without and with a default
RequiredIRFields ==
    {"query_type", "entity_type", "fallback_enabled", "original_query",
     "structured_conditions", "unstructured_keywords"}
OptionalIRFields == {"table", "filters", "select"}

\* query.replace("，", " ").split(): the runs of pieces between blanks
unstructured_keywords(qry) ==
    LET replaced == [i \in 1..Len(qry) |-> IF qry[i] = FullwidthComma THEN " " ELSE qry[i]]
        runs == SelectSeq(Split(replaced, " "), LAMBDA w : w # <<>>)
    IN [i \in 1..Len(runs) |-> PStr(JoinStr(runs[i], ""))]

\* the hints of _build_rule_based_ir: the query itself under company_name
\* and project_name (gongsi 公司, qiye 企业, xiangmu 项目, zhaobiao 招标,
\* zhongbiao 中标)
structured_hints(qry) ==
    LET company == AnyIn({"gongsi", "qiye"}, qry)
        project == AnyIn({"xiangmu", "zhaobiao", "zhongbiao"}, qry)
    IN [k \in (IF company THEN {"company_name"} ELSE {})
               \cup (IF project THEN {"project_name"} ELSE {}) |-> PText(qry)]

\* the dict that holds the entries of both dicts, those of d where both have one
Merge(d, e) == [k \in DOMAIN d \cup DOMAIN e |-> IF k \in DOMAIN d THEN d[k] ELSE e[k]]

\* the rule path reading another table of the registry
build_rule_based_ir_other_table(qry, route_result) ==
    LET qt == route_result.route
        entity == IF Truthy(route_result.entity_type) THEN route_result.entity_type
                  ELSE PStr("unknown")
        base == [query_type |-> PStr(qt),
                 entity_type |-> entity,
                 fallback_enabled |-> PBool(TRUE),
                 original_query |-> PText(qry),
                 structured_conditions |-> structured_hints(qry),
                 unstructured_keywords |-> PList(unstructured_keywords(qry))]
    IN IF qt \in {"sql", "hybrid"}
       THEN Merge(base, [table |-> PStr("company_master"),
                         select |-> PList(<<PStr("*")>>),
                         filters |-> PList(<<>>)])
       ELSE base

\* LlmIRGenerator._build_rule_based_ir: the IR dict
build_rule_based_ir(qry, route_result) ==
    LET qt == route_result.route
        entity == IF Truthy(route_result.entity_type) THEN route_result.entity_type
                  ELSE PStr("unknown")
        base == [query_type |-> PStr(qt),
                 entity_type |-> entity,
                 fallback_enabled |-> PBool(TRUE),
                 original_query |-> PText(qry),
                 structured_conditions |-> structured_hints(qry),
                 unstructured_keywords |-> PList(unstructured_keywords(qry))]
    IN IF qt \in {"sql", "hybrid"}
       THEN Merge(base, [table |-> PStr("tender_project"),
                         select |-> PList(<<PStr("*")>>),
                         filters |-> PList(<<>>)])
       ELSE base

\* json.loads(raw), raw being what the client returned: the value the text
\* stands for, or the exception (TypeError for a raw that is no str,
\* JSONDecodeError for a text that is not JSON)
json_loads(raw) ==
    IF IsDict(raw) \/ raw.t # "str" THEN [raised |-> TRUE, error |-> "TypeError", value |-> PNone]
    ELSE IF ~raw.json THEN [raised |-> TRUE, error |-> "JSONDecodeError", value |-> PNone]
    ELSE [raised |-> FALSE, error |-> "", value |-> raw.value]

\* LlmIRGenerator._build_llm_ir, the client answering with reply: what
\* json.loads returned, or the rule path's dict when anything inside the try
\* raised (the call, json.loads, or ir.get of a value that is no dict)
build_llm_ir(qry, route_result, reply) ==
    LET loaded == json_loads(reply.raw)
    IN IF reply.raises \/ loaded.raised \/ ~IsDict(loaded.value)
       THEN build_rule_based_ir(qry, route_result)
       ELSE loaded.value

\* UnifiedQueryIR(**ir): the dataclass, or the TypeError for a missing
\* required field or a keyword that is no field
UnifiedQueryIR(d) ==
    IF \E k \in DOMAIN d : k \notin RequiredIRFields \cup OptionalIRFields
    THEN [raised |-> TRUE, error |-> "TypeError: unexpected keyword argument", ir |-> EmptyDict]
    ELSE IF \E k \in RequiredIRFields : k \notin DOMAIN d
    THEN [raised |-> TRUE, error |-> "TypeError: missing required positional arguments",
          ir |-> EmptyDict]
    ELSE [raised |-> FALSE, error |-> "",
          ir |-> [k \in RequiredIRFields \cup OptionalIRFields |->
                     IF k \in DOMAIN d THEN d[k] ELSE PNone]]

\* the router of the generator is built without a classifier: no reply is read
NoClassifierReply == [raises |-> TRUE, text |-> <<>>]

\* the generator calling its client again after a call that raised
llm_calls_retrying(client, reply) ==
    IF client = PNone THEN 0 ELSE IF reply.raises THEN 2 ELSE 1

\* how often generate calls its client: once in _build_llm_ir, whatever the
\* call does, and not at all on the rule path
llm_calls(client, reply) ==
    IF client = PNone THEN 0 ELSE 1

GenerateRaised(error) == [raised |-> TRUE, error |-> error, ir |-> EmptyDict]

\* LlmIRGenerator.generate, the client (if called) answering with reply: the
\* UnifiedQueryIR, or the exception that leaves the call
generate(qry, client, reply, cfg, sv, bv) ==
    LET route_result == route(qry, PNone, cfg, NoClassifierReply).result
        d == IF client = PNone THEN build_rule_based_ir(qry, route_result)
             ELSE build_llm_ir(qry, route_result, reply)
        schema_result == validate(d, sv)
        biz_result == validate_ir(d, bv)
    IN IF schema_result.raised THEN GenerateRaised(schema_result.error)
       ELSE IF biz_result.raised THEN GenerateRaised(biz_result.error)
       ELSE UnifiedQueryIR(d)
-----------------------------------------------------------------------------
(* Answer Generator: AnswerGenerator *)

Answer(text, citations, answer_route) ==
    [text |-> text, citations |-> citations, route |-> answer_route]

\* AnswerGenerator._format_prompt: the template filled with query, route, ir
\* and context (the template is taken to name these four fields only)
format_prompt(args) ==
    [query |-> args.query, route |-> args.route, ir |-> args.ir, context |-> args.context]

\* the generator asking its client before it looks at the decision
answer_generate_asking_first(args, reply, response) ==
    [answer |-> Answer(IF ~args.is_confident \/ reply.raises THEN response ELSE reply.text,
                       args.citations, args.route),
     prompts |-> <<format_prompt(args)>>]

\* AnswerGenerator.generate, the client (if called) answering with reply: the
\* Answer and the prompts given to the client
answer_generate(args, reply, response) ==
    IF ~args.is_confident
    THEN [answer |-> Answer(response, args.citations, args.route), prompts |-> <<>>]
    ELSE [answer |-> Answer(IF reply.raises THEN response ELSE reply.text,
                            args.citations, args.route),
          prompts |-> <<format_prompt(args)>>]

-----------------------------------------------------------------------------
(* Read-only executor: SqlExecutor *)

(* The sql text is a sequence of characters, so that lower, strip,           *)
(* startswith and the substring test are what they are in the code.          *)

UpperCase == <<"A", "B", "C", "D", "E", "F", "G", "H", "I", "J", "K", "L", "M",
               "N", "O", "P", "Q", "R", "S", "T", "U", "V", "W", "X", "Y", "Z">>
LowerCase == <<"a", "b", "c", "d", "e", "f", "g", "h", "i", "j", "k", "l", "m",
               "n", "o", "p", "q", "r", "s", "t", "u", "v", "w", "x", "y", "z">>

\* str.lower
str_lower(cs) ==
    [i \in 1..Len(cs) |->
        IF \E k \in 1..Len(UpperCase) : UpperCase[k] = cs[i]
        THEN LowerCase[CHOOSE k \in 1..Len(UpperCase) : UpperCase[k] = cs[i]]
        ELSE cs[i]]

RECURSIVE str_lstrip(_)
str_lstrip(cs) == IF cs # <<>> /\ Head(cs) = " " THEN str_lstrip(Tail(cs)) ELSE cs

RECURSIVE str_rstrip(_)
str_rstrip(cs) ==
    IF cs # <<>> /\ cs[Len(cs)] = " " THEN str_rstrip(SubSeq(cs, 1, Len(cs) - 1)) ELSE cs

\* str.strip
str_strip(cs) == str_rstrip(str_lstrip(cs))

\* str.startswith
str_startswith(cs, prefix) ==
    Len(prefix) <= Len(cs) /\ SubSeq(cs, 1, Len(prefix)) = prefix

\* kw in cs, for two str
str_contains(cs, kw) ==
    \E i \in 1..(Len(cs) - Len(kw) + 1) : SubSeq(cs, i, i + Len(kw) - 1) = kw

\* SqlExecutor.__init__: the commands and keywords of the rules, in lower case
SqlExecutorInit(sql_rules) ==
    [allowed_commands |-> [i \in 1..Len(sql_rules.allowed_commands) |->
                              str_lower(sql_rules.allowed_commands[i])],
     forbidden_keywords |-> [i \in 1..Len(sql_rules.forbidden_keywords) |->
                                str_lower(sql_rules.forbidden_keywords[i])]]

\* the check that looks at the command only
ensure_safe_command_only(sql, ex) ==
    LET sql_lower == str_lower(str_strip(sql))
    IN IF ~\E i \in 1..Len(ex.allowed_commands) : str_startswith(sql_lower, ex.allowed_commands[i])
       THEN Raised("ValueError: only SELECT is allowed")
       ELSE Returned

\* SqlExecutor._ensure_safe: returns, or raises ValueError
ensure_safe(sql, ex) ==
    LET sql_lower == str_lower(str_strip(sql))
    IN IF ~\E i \in 1..Len(ex.allowed_commands) : str_startswith(sql_lower, ex.allowed_commands[i])
       THEN Raised("ValueError: only SELECT is allowed")
       ELSE IF \E i \in 1..Len(ex.forbidden_keywords) : str_contains(sql_lower, ex.forbidden_keywords[i])
       THEN Raised("ValueError: forbidden keyword in SQL")
       ELSE Returned

\* SqlExecutor.execute, the store answering with reply: the rows or the
\* exception, and the statements executed on the connection
execute(sql, params, ex, reply) ==
    LET safe == ensure_safe(sql, ex)
    IN IF safe.raised
       THEN [raised |-> TRUE, error |-> safe.error, rows |-> <<>>, sent |-> <<>>]
       ELSE IF reply.connect_fails
       THEN [raised |-> TRUE, error |-> "OperationalError: connect", rows |-> <<>>,
             sent |-> <<>>]
       ELSE IF reply.execute_fails
       THEN [raised |-> TRUE, error |-> "DatabaseError: execute", rows |-> <<>>,
             sent |-> <<[sql |-> sql, params |-> params]>>]
       ELSE [raised |-> FALSE, error |-> "", rows |-> reply.rows,
             sent |-> <<[sql |-> sql, params |-> params]>>]

-----------------------------------------------------------------------------
(* Configuration and inputs *)

\* sql_tables of config/data_schema.yaml as DBSchema.__init__ loads them
LoadedTables ==
    [tender_project |-> [name |-> "tender_project",
                         columns |-> <<"id", "title", "amount">>,
                         primary_key |-> PStr("id")],
     company_master |-> [name |-> "company_master",
                         columns |-> <<"id", "name">>,
                         primary_key |-> PStr("id")]]

\* ir.allowed_ops of config/rules.yaml: the operators the generator prompt
\* lists, and the same list with the fuzzy operator taken out
AllOps == {"=", ">", "<", ">=", "<=", "between", "like"}
AllowedOpsConfigs == {AllOps, AllOps \ {"like"}}

\* sql.max_limit of config/rules.yaml (the default of IR2SQL.__init__)
DefaultMaxLimit == 100

\* filter dicts given to build
FilterPool ==
    { [field |-> PStr("amount"), op |-> PStr(">="), value |-> PInt(1000000)],
      [field |-> PStr("amount"), op |-> PStr("between"), value |-> PList(<<PInt(1), PInt(2)>>)],
      [field |-> PStr("amount"), op |-> PStr("between"), value |-> PInt(5)],
      [field |-> PStr("amount"), op |-> PStr("between"), value |-> PList(<<PNone, PInt(2)>>)],
      [field |-> PStr("title"), op |-> PStr("like"), value |-> PInt(2024)],
      [field |-> PStr("title"), op |-> PStr("="), value |-> PStr("x' OR 1=1 --")],
      [field |-> PStr("bogus"), op |-> PStr("between"), value |-> PList(<<PInt(1), PInt(2)>>)],
      [field |-> PStr("amount"), op |-> PStr("regexp"), value |-> PStr("x")],
      [field |-> PStr("amount"), value |-> PInt(1)],
      [op |-> PStr("="), value |-> PInt(1)] }

BoundedSeq(S, n) == UNION {[1..k -> S] : k \in 0..n}

TableOpts == {Absent, PStr(""), PStr("tender_project"), PStr("company_master"),
              PStr("nosuch")}
SelectOpts == {Absent, PList(<<PStr("*")>>), PList(<<PStr("id"), PStr("amount")>>),
               PList(<<PStr("bogus")>>), PList(<<PStr("*"), PStr("id")>>)}
LimitOpts == {Absent, PInt(-1), PInt(0), PInt(5), PInt(100), PInt(101),
              PFloat(5), PBool(TRUE)}
QueryTypeOpts == {PStr("sql"), PStr("hybrid"), PStr("rag")}

\* no filters key, and the filters lists of up to n entries
FiltersOpts(n) == {Absent} \cup {PList(fs) : fs \in BoundedSeq(FilterPool, n)}

\* the dict with the keys whose value is given
MkDict(kv) == [k \in {key \in DOMAIN kv : kv[key] # Absent} |-> kv[k]]

\* the IRs given to build: every table, select, limit and query_type with the
\* filters lists of at most one entry, and every filters list with the known
\* tables, with and without a select and a limit
IRs ==
    { MkDict([query_type |-> qt, table |-> t, select |-> s, filters |-> f, limit |-> l]) :
        qt \in QueryTypeOpts, t \in TableOpts, s \in SelectOpts,
        f \in FiltersOpts(1), l \in LimitOpts }
    \cup
    { MkDict([query_type |-> PStr("sql"), table |-> t, select |-> s, filters |-> f,
              limit |-> l]) :
        t \in {PStr("tender_project"), PStr("company_master")},
        s \in {Absent, PList(<<PStr("id"), PStr("amount")>>)},
        f \in FiltersOpts(MaxFilters), l \in {Absent, PInt(5)} }

NotBuilt == [status |-> "none", error |-> "", sql |-> <<>>, params |-> <<>>]

\* router.intent_map of config/rules.yaml; the code reads the key route and,
\* for compatibility, the key router
LoadedRouterCfg ==
    [intent_map |->
        [policy_query |-> [route |-> PStr("rag")],
         opinion_query |-> [route |-> PStr("rag")],
         tender_query |-> [route |-> PStr("sql")],
         company_query |-> [route |-> PStr("sql")],
         items_query |-> [router |-> PStr("sql")],
         hybrid_query |-> [route |-> PStr("hybrid")],
         general_query |-> [route |-> PStr("chat")]]]

\* the injected classifier
Callable == [t |-> "callable"]

\* what a call of the classifier may do: raise, or return a text
ClassifierReplies ==
    { [raises |-> TRUE, text |-> <<>>],
      [raises |-> FALSE, text |-> <<"tender_query">>],
      [raises |-> FALSE, text |-> <<" ", "hybrid_query", "\n">>],
      [raises |-> FALSE, text |-> <<"items_query">>],
      [raises |-> FALSE, text |-> <<"general_query">>],
      [raises |-> FALSE, text |-> <<"smalltalk">>],
      [raises |-> FALSE, text |-> <<" ">>] }

\* the words of the queries: every keyword of the rules and two other words
\* (nihao 你好, and GDP, which lower() changes)
Words ==
    PolicyKeywords \cup OpinionKeywords \cup TenderKeywords \cup HybridKeywords
        \cup CompanyKeywords \cup PriceKeywords \cup {"nihao", "GDP"}

Queries == BoundedSeq(Words, MaxQueryLen)

\* the query 该公司的舆情风险如何, in words: 该 公司 的 舆情 风险 如何
CompanyOpinionQuery == <<"gai", "gongsi", "de", "yuqing", "fengxian", "ruhe">>

\* the queries of the calls that follow the first call on a router
FollowUps ==
    { <<>>, <<"nihao">>, <<"zhengce">>, <<"guifan", "fengxian">>, <<"fengxian">>,
      <<"zhaobiao">>, <<"zhaobiao", "butie">>, <<"zhaobiao", "zhengce">>,
      <<"gongsi">>, <<"jiage">>, CompanyOpinionQuery }

NotRouted == [route |-> "", intent |-> "", entity_type |-> PNone]

\* no call of _safe_llm_classify or of _intent_to_route has returned yet
NotAsked == [t |-> "pending"]
NotMapped == ""


\* ir.allowed_ops as the list rules.yaml gives it
AllOpsList == <<"=", ">", "<", ">=", "<=", "between", "like">>

\* query_type of unified_query_ir in config/data_schema.yaml: the text
\* "ENUM[rag, sql, hybrid]" of the comment in validate, in pieces
QueryTypeDecl == PText(<<"ENUM[", "rag", ",", " ", "sql", ",", " ", "hybrid", "]">>)

\* amount bounds and threshold when rules.yaml sets none (the scores in
\* hundredths)
DefaultAmountMin == 0
DefaultAmountMax == 1000000000
DefaultThreshold == 70

\* the attributes IRSchemaValidator.__init__ sets from the two files: with every
\* key missing (the defaults of the code), with the SQL fields required as the
\* comment at UnifiedQueryIR says, and with fuzzy search enabled and one
\* filter allowed
SchemaValidatorConfigs ==
    { [required_fields |-> <<>>, max_filters |-> 5, allowed_ops |-> <<>>,
       allow_fuzzy |-> FALSE, query_type_decl |-> PText(<<>>)],
      [required_fields |-> <<"table", "filters", "select">>, max_filters |-> 5,
       allowed_ops |-> AllOpsList, allow_fuzzy |-> FALSE, query_type_decl |-> QueryTypeDecl],
      [required_fields |-> <<"query_type", "entity_type">>, max_filters |-> 1,
       allowed_ops |-> AllOpsList, allow_fuzzy |-> TRUE, query_type_decl |-> QueryTypeDecl] }

BusinessValidatorConfig == [amount_min |-> DefaultAmountMin, amount_max |-> DefaultAmountMax]

\* the set of the entries of a list
ListSet(xs) == {xs[i] : i \in 1..Len(xs)}

\* values of ir.structured_conditions given to the validators
StructuredConditionsOpts ==
    { Absent, EmptyDict, PNone,
      [amount_range |-> [min |-> PInt(5), max |-> PInt(10)]],
      [amount_range |-> [min |-> PInt(-1)]],
      [amount_range |-> [max |-> PInt(2000000000)]],
      [amount_range |-> [min |-> PInt(10), max |-> PInt(5)]],
      [amount_range |-> [min |-> PInt(-1), max |-> PInt(2000000000)]],
      [amount_range |-> [min |-> PNone, max |-> PFloat(5)]],
      [amount_range |-> [min |-> PStr("100")]],
      [amount_range |-> PStr("1-2")],
      [date_range |-> [publish_start |-> PStr("2024-12-31"), publish_end |-> PStr("2024-01-01")]],
      [date_range |-> [publish_start |-> PStr("2024-01-01"), publish_end |-> PStr("2024-12-31")]],
      [date_range |-> [publish_start |-> PStr("12/31/2023"), publish_end |-> PStr("2023-06-30")]],
      [date_range |-> [publish_start |-> PStr("2024-01-01")]],
      [date_range |-> [publish_start |-> PInt(20240101), publish_end |-> PStr("2024-12-31")]],
      [amount_range |-> [min |-> PInt(10), max |-> PInt(5)],
       date_range |-> [publish_start |-> PStr("2024-12-31"), publish_end |-> PStr("2024-01-01")]] }

\* values of ir.filters given to the structural validator: no key, values that
\* are no list, a list with an entry that is no dict, and the lists of filters
ValidatedFiltersOpts(n) ==
    {PNone, PStr("amount>1"), PList(<<PStr("amount>1")>>)} \cup FiltersOpts(n)

\* the IRs given to the validators
ValidatedIRs ==
    { MkDict([query_type |-> qt, entity_type |-> e, table |-> t, filters |-> f]) :
        qt \in {Absent, PStr("sql"), PStr("rag"), PStr("chat")},
        e \in {Absent, PStr("tender")},
        t \in {Absent, PStr("tender_project"), PStr("nosuch")},
        f \in ValidatedFiltersOpts(1) }
    \cup
    { MkDict([query_type |-> PStr("sql"), entity_type |-> PStr("tender"),
              table |-> PStr("tender_project"), select |-> PList(<<PStr("*")>>),
              filters |-> f]) :
        f \in FiltersOpts(MaxFilters) }
    \cup
    { MkDict([query_type |-> PStr("sql"), entity_type |-> PStr("tender"),
              table |-> t, select |-> PList(<<PStr("*")>>),
              filters |-> PList(<<>>), structured_conditions |-> sc]) :
        t \in {PStr("tender_project"), PStr("nosuch")}, sc \in StructuredConditionsOpts }

NotValidated == [raised |-> FALSE, error |-> "pending", ok |-> FALSE]

\* what the generator's client may do: raise, return something that is no
\* str, a text that is not JSON, or the text of a JSON value
JsonText(value) == [t |-> "str", json |-> TRUE, value |-> value]
NotJsonText == [t |-> "str", json |-> FALSE, value |-> PNone]

\* a JSON object with every field of the IR, for the route rag
RagObject ==
    [query_type |-> PStr("rag"), entity_type |-> PStr("policy"),
     fallback_enabled |-> PBool(TRUE), original_query |-> PStr("q"),
     structured_conditions |-> EmptyDict, unstructured_keywords |-> PList(<<PStr("q")>>)]

\* the same for the route sql, with the filters given
SqlObject(filters) ==
    Merge([query_type |-> PStr("sql"), entity_type |-> PStr("tender"),
           table |-> PStr("tender_project"), select |-> PList(<<PStr("*")>>),
           filters |-> filters],
          RagObject)

GeneratorReplies ==
    { [raises |-> TRUE, raw |-> PNone],
      [raises |-> FALSE, raw |-> PNone],
      [raises |-> FALSE, raw |-> NotJsonText],
      [raises |-> FALSE, raw |-> JsonText(PNone)],
      [raises |-> FALSE, raw |-> JsonText(PInt(1))],
      [raises |-> FALSE, raw |-> JsonText(PStr("sql"))],
      [raises |-> FALSE, raw |-> JsonText(PList(<<RagObject>>))],
      [raises |-> FALSE, raw |-> JsonText(EmptyDict)],
      [raises |-> FALSE, raw |-> JsonText(RagObject)],
      [raises |-> FALSE, raw |-> JsonText(SqlObject(PList(<<>>)))],
      [raises |-> FALSE, raw |-> JsonText(SqlObject(PList(<<
          [field |-> PStr("amount"), op |-> PStr(">="), value |-> PInt(1000000)]>>)))],
      [raises |-> FALSE, raw |-> JsonText(SqlObject(PList(<<PStr("amount>1")>>)))],
      [raises |-> FALSE, raw |-> JsonText(Merge([limit |-> PInt(10)], SqlObject(PList(<<>>))))],
      [raises |-> FALSE, raw |-> JsonText([query_type |-> PStr("rag")])],
      [raises |-> FALSE, raw |-> JsonText(Merge([structured_conditions |-> PNone], RagObject))],
      [raises |-> FALSE, raw |-> JsonText(Merge(
          [structured_conditions |-> [amount_range |-> [min |-> PInt(-1)]]], RagObject))] }

\* the pieces of the queries given to generate: a keyword of every rule group,
\* the subsidy word, another word, the blank and the fullwidth comma
GenWords == {"zhengce", "fengxian", "zhaobiao", "butie", "gongsi", "jiage", "nihao", " ",
             FullwidthComma}

GenQueries == BoundedSeq(GenWords, MaxQueryLen)

NotGenerated == [raised |-> FALSE, error |-> "pending", ir |-> EmptyDict]

\* the client has not been called
NotCalled == [raises |-> FALSE, raw |-> [t |-> "pending"]]

\* the retrieval and re-rank score lists and row counts given to evaluate
ScorePool == {-20, 0, 30, 69, 70, 90, 100, 150}
ScoreListOpts == {PNone} \cup {PList(xs) : xs \in BoundedSeq(ScorePool, MaxScores)}
RowCountOpts == {PNone, PInt(-3), PInt(0), PInt(10), PInt(35), PInt(50), PInt(80)}

ConfidenceInputs ==
    { ConfidenceInput(r, k, n) : r \in ScoreListOpts, k \in {PNone, PList(<<30>>), PList(<<90, 69>>)},
                                 n \in RowCountOpts }
    \cup
    { ConfidenceInput(r, k, PNone) : r \in {PNone, PList(<<30>>)}, k \in ScoreListOpts }

NotEvaluated == [raised |-> FALSE, error |-> "pending", score |-> 0, is_confident |-> FALSE]

\* answer.uncertainty_response: the text of the code when rules.yaml sets none
\* (written in pinyin), and a configured one
DefaultUncertaintyResponse == "dangqian xinxi buzu yi geichu queding jielun."
UncertaintyResponses == {DefaultUncertaintyResponse, "configured uncertainty response"}

\* the citations build_rag_citations and build_sql_citations make
CitationPool ==
    { [type |-> "rag", id |-> "doc1", title |-> "t1", score |-> 90],
      [type |-> "sql", table |-> "tender_project", primary_key |-> PNone] }

\* the arguments of AnswerGenerator.generate
AnswerInputs ==
    [query : {<<"zhengce">>, <<"zhaobiao">>},
     route : {Route_RAG, Route_SQL, Route_HYBRID},
     ir : {[original_query |-> PStr("q")]},
     context : {"", "context text"},
     citations : BoundedSeq(CitationPool, MaxCitations),
     is_confident : BOOLEAN]

\* what the answer client may do: raise, or return a text
AnswerReplies ==
    { [raises |-> TRUE, text |-> ""],
      [raises |-> FALSE, text |-> "generated answer"],
      [raises |-> FALSE, text |-> DefaultUncertaintyResponse] }

NoAnswerInput == [pending |-> TRUE]
NotAnswered == [pending |-> TRUE]

\* words of the sql texts, as characters
Sp == <<" ">>
Select == <<"s", "e", "l", "e", "c", "t">>
SELECT == <<"S", "E", "L", "E", "C", "T">>
Drop == <<"d", "r", "o", "p">>
Delete == <<"d", "e", "l", "e", "t", "e">>
Update == <<"u", "p", "d", "a", "t", "e">>
Insert == <<"i", "n", "s", "e", "r", "t">>
FROM == <<"F", "R", "O", "M">>
LIMIT == <<"L", "I", "M", "I", "T">>
TenderProject == <<"t", "e", "n", "d", "e", "r", "_", "p", "r", "o", "j", "e", "c", "t">>

\* the section sql of rules.yaml: with the keys missing (the defaults of the
\* code), and with the forbidden keywords listed, one of them in upper case
SqlRulesConfigs ==
    { [allowed_commands |-> <<Select>>, forbidden_keywords |-> <<>>],
      [allowed_commands |-> <<SELECT>>,
       forbidden_keywords |-> <<Drop, <<"D", "E", "L", "E", "T", "E">>, Update, Insert>>] }

\* the statement build makes of the rule-path IR
DefaultStatement ==
    SELECT \o Sp \o <<"*">> \o Sp \o FROM \o Sp \o TenderProject \o Sp \o LIMIT \o Sp
        \o <<"1", "0", "0">>

\* the sql texts handed to execute: reads, writes, a read followed by a write,
\* a read of a column whose name holds a keyword, texts with blanks around
\* and in mixed case, the empty text
Statements ==
    { DefaultStatement,
      Select \o Sp \o <<"1">>,
      Sp \o <<"S">> \o Tail(Select) \o Sp \o <<"1">> \o Sp,
      Select \o <<"e", "d">>,
      <<"D", "E", "L", "E", "T", "E">> \o Sp \o FROM \o Sp \o <<"t">>,
      Drop \o Sp \o <<"t", "a", "b", "l", "e">> \o Sp \o <<"t">>,
      Update \o Sp \o <<"t">> \o Sp \o <<"s", "e", "t">> \o Sp \o <<"a", "=", "1">>,
      Select \o Sp \o <<"1", ";">> \o Sp \o <<"D", "r", "o", "p">> \o Sp \o <<"t">>,
      Select \o Sp \o Drop \o <<"p", "e", "d">> \o Sp \o <<"f", "r", "o", "m">> \o Sp \o <<"t">>,
      <<"(">> \o Select \o Sp \o <<"1", ")">>,
      <<>> }

ParamsOpts == {<<>>, <<PInt(1)>>}

\* what the store may do: refuse the connection, fail the statement, or
\* return rows
StoreReplies ==
    { [connect_fails |-> TRUE, execute_fails |-> FALSE, rows |-> <<>>],
      [connect_fails |-> FALSE, execute_fails |-> TRUE, rows |-> <<>>],
      [connect_fails |-> FALSE, execute_fails |-> FALSE, rows |-> <<>>],
      [connect_fails |-> FALSE, execute_fails |-> FALSE, rows |-> <<[id |-> PInt(1)]>>] }

NotExecuted == [raised |-> FALSE, error |-> "pending", rows |-> <<>>]
-----------------------------------------------------------------------------
(* Specification of the Query Synthesizer *)

\* the Schema Registry and the IR2SQL instance as constructed
BuilderLoaded ==
    /\ tables = LoadedTables
    /\ allowed_ops \in AllowedOpsConfigs
    /\ max_limit = DefaultMaxLimit

\* the QueryRouter as constructed, with or without a classifier
RouterLoaded ==
    /\ router_cfg = LoadedRouterCfg
    /\ llm_classifier \in {PNone, Callable}
    /\ calls = 0
    /\ routeResult = NotRouted
    /\ llmCalls = <<>>
    /\ llmLabel = NotAsked
    /\ intentRoute = NotMapped

\* the validators as constructed from the rules the builder was given
SchemaValidatorFor(ops) ==
    [required_fields |-> <<"table", "filters", "select">>, max_filters |-> 5,
     allowed_ops |-> SelectSeq(AllOpsList, LAMBDA o : o \in ops),
     allow_fuzzy |-> FALSE, query_type_decl |-> QueryTypeDecl]

ValidatorsLoaded ==
    /\ business_validator = BusinessValidatorConfig
    /\ schemaResult = NotValidated
    /\ bizResult = NotValidated
    /\ validations = 0

\* the generator of api/main.py, built without a client
GeneratorLoaded ==
    /\ genResult = NotGenerated
    /\ llmReply = NotCalled
    /\ clientCalls = 0

\* the ConfidenceChecker as constructed
CheckerLoaded ==
    /\ threshold = DefaultThreshold
    /\ confResult = NotEvaluated

\* the components a specification does not call
OthersLoaded ==
    /\ ValidatorsLoaded
    /\ schema_validator = SchemaValidatorFor(allowed_ops)
    /\ GeneratorLoaded
    /\ llm_client = PNone
    /\ CheckerLoaded
    /\ confInput = ConfidenceInput(PNone, PNone, PNone)

\* the answer generator before its first call
AnswerGeneratorLoaded ==
    /\ answerResult = NotAnswered
    /\ answerCalls = <<>>

\* the executor before its first call
ExecutorLoaded ==
    /\ sent = <<>>
    /\ execResult = NotExecuted

\* the answer generator and the executor as constructed, and no request
LaterLoaded ==
    /\ AnswerGeneratorLoaded
    /\ uncertainty_response = DefaultUncertaintyResponse
    /\ answerInput = NoAnswerInput
    /\ ExecutorLoaded
    /\ sql_executor = SqlExecutorInit([allowed_commands |-> <<Select>>,
                                       forbidden_keywords |-> <<>>])
    /\ statement = [sql |-> <<>>, params |-> <<>>]
    /\ requests = <<>>

InitBuild ==
    /\ LaterLoaded
    /\ BuilderLoaded
    /\ ir \in IRs
    /\ buildResult = NotBuilt
    /\ RouterLoaded
    /\ llm_classifier = PNone
    /\ query = <<>>
    /\ OthersLoaded

\* a call ir2sql.build(ir)
Build ==
    /\ buildResult.status = "none"
    /\ buildResult' = build(ir, tables, allowed_ops, max_limit)
    /\ UNCHANGED <<tables, allowed_ops, max_limit, ir, routerVars, validVars, genVars, confVars, laterVars>>

NextBuild == Build

SpecBuild == InitBuild /\ [][NextBuild]_vars

-----------------------------------------------------------------------------
(* Specification of the Intent Router *)

InitRoute ==
    /\ LaterLoaded
    /\ RouterLoaded
    /\ query \in Queries
    /\ BuilderLoaded
    /\ allowed_ops = AllOps
    /\ ir = MkDict([query_type |-> PStr("rag")])
    /\ buildResult = NotBuilt
    /\ OthersLoaded

\* a call router.route(query); the classifier, if called, answers with reply
Route ==
    /\ routeResult = NotRouted
    /\ \E reply \in ClassifierReplies :
          LET r == route(query, llm_classifier, router_cfg, reply)
          IN /\ routeResult' = r.result
             /\ llmCalls' = r.prompts
    /\ calls' = calls + 1
    /\ UNCHANGED <<router_cfg, llm_classifier, query, llmLabel, intentRoute, buildVars,
                   validVars, genVars, confVars, laterVars>>

\* the next query arrives at the same router
Receive ==
    /\ routeResult # NotRouted
    /\ calls < MaxCalls
    /\ query' \in FollowUps
    /\ routeResult' = NotRouted
    /\ llmCalls' = <<>>
    /\ UNCHANGED <<router_cfg, llm_classifier, calls, llmLabel, intentRoute, buildVars,
                   validVars, genVars, confVars, laterVars>>

NextRoute == Route \/ Receive

SpecRoute == InitRoute /\ [][NextRoute]_vars

-----------------------------------------------------------------------------
(* Specification of the classifier helpers of the Intent Router, called on   *)
(* their own: route itself reaches them only behind the test of line 71      *)

InitClassify ==
    /\ LaterLoaded
    /\ RouterLoaded
    /\ llm_classifier = Callable
    /\ query \in Queries
    /\ BuilderLoaded
    /\ allowed_ops = AllOps
    /\ ir = MkDict([query_type |-> PStr("rag")])
    /\ buildResult = NotBuilt
    /\ OthersLoaded

\* a call router._safe_llm_classify(query); the classifier answers with reply
SafeLlmClassify ==
    /\ llmLabel = NotAsked
    /\ \E reply \in ClassifierReplies : llmLabel' = safe_llm_classify(reply)
    /\ llmCalls' = <<ClassifyPrompt(query)>>
    /\ UNCHANGED <<router_cfg, llm_classifier, query, routeResult, calls, intentRoute,
                   buildVars, validVars, genVars, confVars, laterVars>>

\* a call router._intent_to_route(llmLabel), made as route makes it: for a
\* label that is not empty
IntentToRoute ==
    /\ llmLabel # NotAsked
    /\ Truthy(llmLabel)
    /\ intentRoute = NotMapped
    /\ intentRoute' = intent_to_route(router_cfg, llmLabel.s)
    /\ UNCHANGED <<router_cfg, llm_classifier, query, routeResult, llmCalls, calls,
                   llmLabel, buildVars, validVars, genVars, confVars, laterVars>>

NextClassify == SafeLlmClassify \/ IntentToRoute

SpecClassify == InitClassify /\ [][NextClassify]_vars

-----------------------------------------------------------------------------
(* Specification of the IR Validator *)

InitValidate ==
    /\ LaterLoaded
    /\ schema_validator \in SchemaValidatorConfigs
    /\ ValidatorsLoaded
    /\ ir \in ValidatedIRs
    /\ tables = LoadedTables
    /\ allowed_ops = ListSet(schema_validator.allowed_ops)
    /\ max_limit = DefaultMaxLimit
    /\ buildResult = NotBuilt
    /\ RouterLoaded
    /\ llm_classifier = PNone
    /\ query = <<>>
    /\ GeneratorLoaded
    /\ llm_client = PNone
    /\ CheckerLoaded
    /\ confInput = ConfidenceInput(PNone, PNone, PNone)

\* a call schema_validator.validate(ir)
ValidateSchema ==
    /\ validations < MaxValidations
    /\ schemaResult' = validate(ir, schema_validator)
    /\ validations' = validations + 1
    /\ UNCHANGED <<schema_validator, business_validator, bizResult, buildVars, routerVars,
                   genVars, confVars, laterVars>>

\* a call business_validator.validate_ir(ir)
ValidateBusiness ==
    /\ validations < MaxValidations
    /\ bizResult' = validate_ir(ir, business_validator)
    /\ validations' = validations + 1
    /\ UNCHANGED <<schema_validator, business_validator, schemaResult, buildVars, routerVars,
                   genVars, confVars, laterVars>>

NextValidate == ValidateSchema \/ ValidateBusiness

SpecValidate == InitValidate /\ [][NextValidate]_vars

-----------------------------------------------------------------------------
(* Specification of the IR Synthesizer *)

InitGenerate ==
    /\ LaterLoaded
    /\ llm_client \in {PNone, Callable}
    /\ GeneratorLoaded
    /\ query \in GenQueries
    /\ schema_validator \in SchemaValidatorConfigs
    /\ ValidatorsLoaded
    /\ tables = LoadedTables
    /\ allowed_ops = ListSet(schema_validator.allowed_ops)
    /\ max_limit = DefaultMaxLimit
    /\ ir = MkDict([query_type |-> PStr("rag")])
    /\ buildResult = NotBuilt
    /\ RouterLoaded
    /\ llm_classifier = PNone
    /\ CheckerLoaded
    /\ confInput = ConfidenceInput(PNone, PNone, PNone)

\* a call ir_generator.generate(query); the client, if called, answers with reply
Generate ==
    /\ genResult = NotGenerated
    /\ \E reply \in GeneratorReplies :
          /\ genResult' = generate(query, llm_client, reply, router_cfg, schema_validator,
                                   business_validator)
          /\ llmReply' = IF llm_client = PNone THEN NotCalled ELSE reply
          /\ clientCalls' = clientCalls + llm_calls(llm_client, reply)
    /\ UNCHANGED <<llm_client, buildVars, routerVars, validVars, confVars, laterVars>>

NextGenerate == Generate

SpecGenerate == InitGenerate /\ [][NextGenerate]_vars

-----------------------------------------------------------------------------
(* Specification of the Confidence Fuser *)

InitConfidence ==
    /\ LaterLoaded
    /\ threshold \in {DefaultThreshold, 90}
    /\ confInput \in ConfidenceInputs
    /\ confResult = NotEvaluated
    /\ BuilderLoaded
    /\ allowed_ops = AllOps
    /\ ir = MkDict([query_type |-> PStr("rag")])
    /\ buildResult = NotBuilt
    /\ RouterLoaded
    /\ llm_classifier = PNone
    /\ query = <<>>
    /\ ValidatorsLoaded
    /\ schema_validator = SchemaValidatorFor(allowed_ops)
    /\ GeneratorLoaded
    /\ llm_client = PNone

\* a call confidence_checker.evaluate(confInput)
Evaluate ==
    /\ confResult = NotEvaluated
    /\ confResult' = evaluate(confInput, threshold)
    /\ UNCHANGED <<threshold, confInput, buildVars, routerVars, validVars, genVars, laterVars>>

NextConfidence == Evaluate

SpecConfidence == InitConfidence /\ [][NextConfidence]_vars

-----------------------------------------------------------------------------
(* Specification of the Answer Generator *)

\* the components of the earlier sections, none of them called
CoreLoaded ==
    /\ BuilderLoaded
    /\ allowed_ops = AllOps
    /\ ir = MkDict([query_type |-> PStr("rag")])
    /\ buildResult = NotBuilt
    /\ RouterLoaded
    /\ llm_classifier = PNone
    /\ query = <<>>
    /\ OthersLoaded

InitAnswer ==
    /\ uncertainty_response \in UncertaintyResponses
    /\ answerInput \in AnswerInputs
    /\ AnswerGeneratorLoaded
    /\ ExecutorLoaded
    /\ sql_executor = SqlExecutorInit([allowed_commands |-> <<Select>>,
                                       forbidden_keywords |-> <<>>])
    /\ statement = [sql |-> <<>>, params |-> <<>>]
    /\ requests = <<>>
    /\ CoreLoaded

\* a call answer_generator.generate(**answerInput); the client, if called,
\* answers with reply
AnswerGenerate ==
    /\ answerResult = NotAnswered
    /\ \E reply \in AnswerReplies :
          LET r == answer_generate(answerInput, reply, uncertainty_response)
          IN /\ answerResult' = r.answer
             /\ answerCalls' = r.prompts
    /\ UNCHANGED <<uncertainty_response, answerInput, execVars, requests, buildVars,
                   routerVars, validVars, genVars, confVars>>

NextAnswer == AnswerGenerate

SpecAnswer == InitAnswer /\ [][NextAnswer]_vars

-----------------------------------------------------------------------------
(* Specification of the read-only executor *)

InitExecute ==
    /\ \E sql_rules \in SqlRulesConfigs : sql_executor = SqlExecutorInit(sql_rules)
    /\ statement \in [sql : Statements, params : ParamsOpts]
    /\ ExecutorLoaded
    /\ AnswerGeneratorLoaded
    /\ uncertainty_response = DefaultUncertaintyResponse
    /\ answerInput = NoAnswerInput
    /\ requests = <<>>
    /\ CoreLoaded

\* a call sql_executor.execute(sql, params); the store, if reached, answers
\* with reply
Execute ==
    /\ execResult = NotExecuted
    /\ \E reply \in StoreReplies :
          LET r == execute(statement.sql, statement.params, sql_executor, reply)
          IN /\ execResult' = [raised |-> r.raised, error |-> r.error, rows |-> r.rows]
             /\ sent' = sent \o r.sent
    /\ UNCHANGED <<sql_executor, statement, answerVars, requests, buildVars, routerVars,
                   validVars, genVars, confVars>>

NextExecute == Execute

SpecExecute == InitExecute /\ [][NextExecute]_vars

-----------------------------------------------------------------------------
(* Specification of the components that call an external model: the router   *)
(* with a classifier and the generator with or without a client              *)

InitCalls ==
    /\ RouterLoaded
    /\ llm_classifier = Callable
    /\ query \in FollowUps
    /\ llm_client \in {PNone, Callable}
    /\ GeneratorLoaded
    /\ schema_validator \in SchemaValidatorConfigs
    /\ ValidatorsLoaded
    /\ tables = LoadedTables
    /\ allowed_ops = ListSet(schema_validator.allowed_ops)
    /\ max_limit = DefaultMaxLimit
    /\ ir = MkDict([query_type |-> PStr("rag")])
    /\ buildResult = NotBuilt
    /\ CheckerLoaded
    /\ confInput = ConfidenceInput(PNone, PNone, PNone)
    /\ LaterLoaded

NextCalls == Route \/ SafeLlmClassify \/ Generate

SpecCalls == InitCalls /\ [][NextCalls]_vars

-----------------------------------------------------------------------------
(* Specification of the request pipeline: query_endpoint of api/main.py,     *)
(* called for several requests at a time.  A request holds the locals of its *)
(* call; the components are the singletons the module constructs.            *)

\* the requests the endpoint serves at a time
MaxRequests == 2

\* the queries of the requests: policy (rag), tender (sql), and tender with a
\* subsidy word (hybrid)
PipelineQueries == { <<"zhengce">>, <<"zhaobiao">>, <<"zhaobiao", "butie">> }

\* what retrieval and re-ranking may do: raise, or return the documents'
\* scores, best first
RetrievalReplies ==
    { [raises |-> TRUE, scores |-> <<>>],
      [raises |-> FALSE, scores |-> <<>>],
      [raises |-> FALSE, scores |-> <<90, 30>>] }

\* what the store may do in the pipeline: refuse the connection, or return
\* no row or one
PipelineStoreReplies == {reply \in StoreReplies : ~reply.execute_fails}

\* the rules the validators of the pipeline are built from: with every key
\* missing, and with the SQL fields required
PipelineValidatorConfigs ==
    {v \in SchemaValidatorConfigs : ~v.allow_fuzzy}

\* the tokens of the statements build makes in the pipeline, as characters
Spelling ==
    [SELECT |-> SELECT, FROM |-> FROM, LIMIT |-> LIMIT,
     tender_project |-> TenderProject,
     company_master |-> <<"c", "o", "m", "p", "a", "n", "y", "_", "m", "a", "s", "t", "e", "r">>]

RECURSIVE Spell(_)
\* the str sql_build.sql: the tokens, each followed by a blank but the last
Spell(tokens) ==
    IF tokens = <<>> THEN <<>>
    ELSE LET tok == Head(tokens)
             cs == IF tok \in DOMAIN Spelling THEN Spelling[tok]
                   ELSE IF tok = "100" THEN <<"1", "0", "0">>
                   ELSE <<tok>>
         IN IF Len(tokens) = 1 THEN cs ELSE cs \o Sp \o Spell(Tail(tokens))

\* the locals of a call of query_endpoint that has just been entered
NewRequest(qry) ==
    [query |-> qry, pc |-> "route", route_result |-> NotRouted, ir_obj |-> NotGenerated,
     rag_docs |-> <<>>, sql_build |-> NotBuilt, handed |-> <<>>, sent |-> <<>>,
     sql_rows |-> <<>>, conf_input |-> ConfidenceInput(PNone, PNone, PNone),
     conf_result |-> NotEvaluated, error |-> ""]

\* the query every step of a call reads: the one a module-level name holds,
\* which the latest request set
body_query_shared(reqs, i) == reqs[Len(reqs)].query

\* body.query: the query of the request the call serves
body_query(reqs, i) == reqs[i].query

\* the step after generate: retrieval for rag and hybrid, else build for sql,
\* else evaluate
after_generate(a_route) ==
    IF a_route \in {Route_RAG, Route_HYBRID} THEN "retrieve"
    ELSE IF a_route \in {Route_SQL, Route_HYBRID} THEN "build"
    ELSE "evaluate"

\* the step after retrieval: build for hybrid, else evaluate
after_retrieve(a_route) ==
    IF a_route \in {Route_SQL, Route_HYBRID} THEN "build" ELSE "evaluate"

\* ConfidenceInput(...) of query_endpoint: both score lists are the re-ranked
\* documents' scores, or None without documents; the row count is None
\* without rows
conf_input_of(rag_docs, sql_rows) ==
    ConfidenceInput(IF rag_docs # <<>> THEN PList(rag_docs) ELSE PNone,
                    IF rag_docs # <<>> THEN PList(rag_docs) ELSE PNone,
                    IF sql_rows # <<>> THEN PInt(Len(sql_rows)) ELSE PNone)

\* an exception leaves the call: the request ends with it
Failed(req, error) == [req EXCEPT !.pc = "failed", !.error = error]

\* the singletons of api/main.py: the router without a classifier, the
\* generator without a client, the validators and the builder reading the
\* same rules
InitPipeline ==
    /\ RouterLoaded
    /\ llm_classifier = PNone
    /\ query = <<>>
    /\ llm_client = PNone
    /\ GeneratorLoaded
    /\ schema_validator \in PipelineValidatorConfigs
    /\ ValidatorsLoaded
    /\ tables = LoadedTables
    /\ allowed_ops = ListSet(schema_validator.allowed_ops)
    /\ max_limit = DefaultMaxLimit
    /\ ir = MkDict([query_type |-> PStr("rag")])
    /\ buildResult = NotBuilt
    /\ CheckerLoaded
    /\ confInput = ConfidenceInput(PNone, PNone, PNone)
    /\ LaterLoaded

\* the components and the single-call variables of the other specifications
components ==
    <<buildVars, routerVars, validVars, genVars, confVars, answerVars, execVars>>

\* a request arrives: query_endpoint is entered
QueryArrives ==
    /\ Len(requests) < MaxRequests
    /\ \E qry \in PipelineQueries : requests' = Append(requests, NewRequest(qry))
    /\ UNCHANGED components

\* route_result = router.route(body.query)
StepRoute ==
    /\ \E i \in 1..Len(requests) :
          /\ requests[i].pc = "route"
          /\ requests' =
                [requests EXCEPT ![i] =
                    [@ EXCEPT !.route_result =
                                  route(body_query(requests, i), llm_classifier, router_cfg,
                                        NoClassifierReply).result,
                              !.pc = "generate"]]
    /\ UNCHANGED components

\* ir_obj = ir_generator.generate(body.query); ir = ir_obj.to_dict()
StepGenerate ==
    /\ \E i \in 1..Len(requests) :
          /\ requests[i].pc = "generate"
          /\ LET g == generate(body_query(requests, i), llm_client, NotCalled, router_cfg,
                               schema_validator, business_validator)
             IN requests' =
                   [requests EXCEPT ![i] =
                       IF g.raised THEN Failed(@, g.error)
                       ELSE [@ EXCEPT !.ir_obj = g,
                                      !.pc = after_generate(requests[i].route_result.route)]]
    /\ UNCHANGED components

\* the RAG path: retrieve and rerank
StepRetrieve ==
    /\ \E i \in 1..Len(requests) :
          /\ requests[i].pc = "retrieve"
          /\ \E reply \in RetrievalReplies :
                requests' =
                   [requests EXCEPT ![i] =
                       IF reply.raises THEN Failed(@, "retrieval failed")
                       ELSE [@ EXCEPT !.rag_docs = reply.scores,
                                      !.pc = after_retrieve(requests[i].route_result.route)]]
    /\ UNCHANGED components

\* sql_build = ir2sql.build(ir)
StepBuild ==
    /\ \E i \in 1..Len(requests) :
          /\ requests[i].pc = "build"
          /\ LET b == build(requests[i].ir_obj.ir, tables, allowed_ops, max_limit)
             IN requests' =
                   [requests EXCEPT ![i] =
                       IF b.status = "error" THEN Failed(@, b.error)
                       ELSE [@ EXCEPT !.sql_build = b, !.pc = "execute"]]
    /\ UNCHANGED components

\* sql_rows = sql_executor.execute(sql_build.sql, sql_build.params)
StepExecute ==
    /\ \E i \in 1..Len(requests) :
          /\ requests[i].pc = "execute"
          /\ \E reply \in PipelineStoreReplies :
                LET given == [sql |-> Spell(requests[i].sql_build.sql),
                              params |-> requests[i].sql_build.params]
                    r == execute(given.sql, given.params, sql_executor, reply)
                IN requests' =
                      [requests EXCEPT ![i] =
                          IF r.raised
                          THEN [Failed(@, r.error) EXCEPT !.handed = <<given>>,
                                                          !.sent = r.sent]
                          ELSE [@ EXCEPT !.handed = <<given>>, !.sent = r.sent,
                                         !.sql_rows = r.rows, !.pc = "evaluate"]]
    /\ UNCHANGED components

\* conf_result = confidence_checker.evaluate(conf_input); the steps that
\* follow it (context, citations, answer) are those of SpecAnswer
StepEvaluate ==
    /\ \E i \in 1..Len(requests) :
          /\ requests[i].pc = "evaluate"
          /\ LET given == conf_input_of(requests[i].rag_docs, requests[i].sql_rows)
                 c == evaluate(given, threshold)
             IN requests' =
                   [requests EXCEPT ![i] =
                       IF c.raised
                       THEN [Failed(@, c.error) EXCEPT !.conf_input = given, !.conf_result = c]
                       ELSE [@ EXCEPT !.conf_input = given, !.conf_result = c,
                                      !.pc = "answer"]]
    /\ UNCHANGED components

NextPipeline ==
    \/ QueryArrives
    \/ StepRoute
    \/ StepGenerate
    \/ StepRetrieve
    \/ StepBuild
    \/ StepExecute
    \/ StepEvaluate

SpecPipeline == InitPipeline /\ [][NextPipeline]_vars

-----------------------------------------------------------------------------
(* Vocabulary of the properties of the Query Synthesizer *)

Built == buildResult.status # "none"
Succeeded == buildResult.status = "ok"

\* the filters of the IR handed to build
IrFilters == IF "filters" \in DOMAIN ir THEN ir["filters"].xs ELSE <<>>

\* ir.table names a table of the Schema Registry
KnownTable ==
    "table" \in DOMAIN ir /\ ir["table"].t = "str" /\ ir["table"].s \in DOMAIN tables

\* the column names of the resolved table
ResolvedColumns ==
    LET cs == tables[ir["table"].s].columns IN {cs[i] : i \in 1..Len(cs)}

\* the select passes the column check: absent, empty, the wildcard, or columns only
SelectAccepted ==
    \/ "select" \notin DOMAIN ir
    \/ ir["select"].xs = <<>>
    \/ ir["select"] = PList(<<PStr("*")>>)
    \/ \A i \in 1..Len(ir["select"].xs) :
          /\ ir["select"].xs[i].t = "str"
          /\ ir["select"].xs[i].s \in ResolvedColumns

OpAllowed(f) == "op" \in DOMAIN f /\ f["op"].t = "str" /\ f["op"].s \in allowed_ops
FieldKnown(f) ==
    "field" \in DOMAIN f /\ f["field"].t = "str" /\ f["field"].s \in ResolvedColumns
IsBetween(f) == "op" \in DOMAIN f /\ f["op"] = PStr("between")
IsLike(f) == "op" \in DOMAIN f /\ f["op"] = PStr("like")
PairValue(f) ==
    "value" \in DOMAIN f /\ f["value"].t = "list" /\ Len(f["value"].xs) = 2

\* the filters the claims call "remaining": allowed operator and known field
Remaining(f) == OpAllowed(f) /\ FieldKnown(f)
\* the filters that stay: remaining, and a between filter carries a pair
Kept(f) == Remaining(f) /\ (IsBetween(f) => PairValue(f))

\* the clause a filter stands for in the WHERE conjunction
ClauseShape(f) ==
    IF IsBetween(f) THEN <<Quote(f["field"].s), "BETWEEN", "%s", "AND", "%s">>
    ELSE IF IsLike(f) THEN <<Quote(f["field"].s), "LIKE", "%s">>
    ELSE <<Quote(f["field"].s), f["op"].s, "%s">>

\* the values a kept filter hands over as parameters
ValuesOf(f) ==
    IF IsBetween(f) THEN f["value"].xs
    ELSE IF IsLike(f) THEN <<PStr(PyStr(Get(f, "value")))>>
    ELSE <<Get(f, "value")>>

RECURSIVE Conjunction(_)
Conjunction(clauses) ==
    IF clauses = <<>> THEN <<>>
    ELSE IF Len(clauses) = 1 THEN clauses[1]
    ELSE clauses[1] \o <<"AND">> \o Conjunction(Tail(clauses))

\* WHERE followed by the conjunction of the filters picked by keep, or nothing
ExpectedWhere(keep(_)) ==
    LET kept == SelectSeq(IrFilters, keep)
    IN IF kept = <<>> THEN <<>>
       ELSE <<"WHERE">> \o Conjunction([i \in 1..Len(kept) |-> ClauseShape(kept[i])])

\* the indices of seq holding a member of S, ascending
Positions(seq, S) ==
    SelectSeq([i \in 1..Len(seq) |-> i], LAMBDA i : seq[i] \in S)

CountIn(seq, lo, hi, tok) == Cardinality({i \in lo..hi : seq[i] = tok})

\* the text from WHERE up to, and without, the closing LIMIT clause
WhereRegion ==
    LET sql == buildResult.sql
        w == Positions(sql, {"WHERE"})
    IN IF w = <<>> THEN <<>> ELSE SubSeq(sql, w[1], Len(sql) - 2)

\* the token written after LIMIT
LimitToken == buildResult.sql[Len(buildResult.sql)]

\* number of parameters handed over by the filters before the i-th
RECURSIVE Offset(_, _)
Offset(width(_), i) ==
    IF i <= 1 THEN 0 ELSE Offset(width, i - 1) + width(IrFilters[i - 1])

-----------------------------------------------------------------------------
(* Properties of the Query Synthesizer *)

\* tokens a WHERE clause may be made of: none of them comes from a filter value
WhereVocabulary ==
    {"WHERE", "AND", "BETWEEN", "LIKE", "%s"}
        \cup {Quote(c) : c \in ResolvedColumns}
        \cup (allowed_ops \ {"between", "like"})

\* C1: whenever build succeeds, the query text holds no filter value: its
\* WHERE clause is made of quoted columns, allowed operators, keywords and
\* placeholders only; the text has as many placeholders as there are
\* parameters; and the clause of the j-th emitted filter starts with its quoted
\* field and holds as many placeholders as the filter hands over values, the
\* parameter list being those values in filter order.
C1_ValuesNeverInText ==
    Succeeded =>
        LET sql == buildResult.sql
            params == buildResult.params
            region == WhereRegion
            kept == SelectSeq(IrFilters, Kept)
            starts == Positions(region, {Quote(c) : c \in ResolvedColumns})
            stop(j) == IF j < Len(starts) THEN starts[j + 1] - 1 ELSE Len(region)
        IN /\ \A i \in 1..Len(region) : region[i] \in WhereVocabulary
           /\ CountIn(sql, 1, Len(sql), "%s") = Len(params)
           /\ Len(starts) = Len(kept)
           /\ \A j \in 1..Len(starts) :
                 /\ region[starts[j]] = Quote(kept[j]["field"].s)
                 /\ CountIn(region, starts[j], stop(j), "%s") = Len(ValuesOf(kept[j]))
           /\ params = Flatten([j \in 1..Len(kept) |-> ValuesOf(kept[j])])

\* a build that emitted two clauses, with a string value among three parameters
C1_Witness ==
    /\ Succeeded
    /\ Len(buildResult.params) = 3
    /\ \E i \in 1..3 : buildResult.params[i] = PStr("x' OR 1=1 --")

\* C2 (as claimed): when build succeeds the emitted row limit is ir.limit
\* capped at the ceiling when ir.limit is present, an integer and positive,
\* and the ceiling in every other case.
C2_RowLimitAsClaimed ==
    Succeeded =>
        LET limit == Get(ir, "limit")
        IN LimitToken =
              IF limit.t = "int" /\ limit.n > 0
              THEN ToString(IF limit.n < max_limit THEN limit.n ELSE max_limit)
              ELSE ToString(max_limit)

C4_HardFailures ==
    Built =>
        /\ ("table" \notin DOMAIN ir \/ ~KnownTable \/ ~SelectAccepted)
              => /\ buildResult.status = "error"
                 /\ buildResult.sql = <<>>
                 /\ buildResult.params = <<>>
        /\ (KnownTable /\ Get(ir, "select") = PList(<<PStr("*")>>)) => Succeeded

\* a build refused because of a select entry that is no column
C4_Witness ==
    /\ KnownTable
    /\ ~SelectAccepted
    /\ buildResult.status = "error"
    /\ buildResult.error = "ValueError: invalid select columns"

\* parameters a filter hands over if every between filter hands over two
WidthAsClaimed(f) == IF IsBetween(f) THEN 2 ELSE IF Kept(f) THEN 1 ELSE 0
\* parameters a filter hands over
Width(f) == IF ~Kept(f) THEN 0 ELSE IF IsBetween(f) THEN 2 ELSE 1

\* C5 (as claimed): every between filter of the IR that carries a pair adds
\* exactly its two pair elements to the parameter list, in order.
C5_BetweenAsClaimed ==
    Succeeded =>
        \A i \in 1..Len(IrFilters) :
            (IsBetween(IrFilters[i]) /\ PairValue(IrFilters[i])) =>
                /\ Len(buildResult.params) >= Offset(WidthAsClaimed, i) + 2
                /\ SubSeq(buildResult.params, Offset(WidthAsClaimed, i) + 1,
                          Offset(WidthAsClaimed, i) + 2) = IrFilters[i]["value"].xs

\* C5 (amended): every between filter that build keeps (between allowed, field
\* a column of the table, value a two-element list) adds exactly its two pair
\* elements to the parameter list, in order, at the place the filter has among
\* the kept filters; a between filter that is dropped adds none.
C5_KeptBetweenAddsPair ==
    Succeeded =>
        /\ Len(buildResult.params) = Offset(Width, Len(IrFilters) + 1)
        /\ \A i \in 1..Len(IrFilters) :
              (IsBetween(IrFilters[i]) /\ Kept(IrFilters[i])) =>
                  SubSeq(buildResult.params, Offset(Width, i) + 1, Offset(Width, i) + 2)
                      = IrFilters[i]["value"].xs

\* a build that kept a between filter behind another kept filter
C5_Witness ==
    /\ Succeeded
    /\ Len(IrFilters) = 2
    /\ Kept(IrFilters[1])
    /\ ~IsBetween(IrFilters[1])
    /\ IsBetween(IrFilters[2])
    /\ Kept(IrFilters[2])
    /\ Len(buildResult.params) = 3

\* the decimal numerals of the row counts up to the ceiling
NumeralsUpTo(n) == {ToString(k) : k \in 1..n}

\* C6 (as claimed): for an IR with query_type sql or hybrid, a known table and
\* an empty filters list, the statement build emits has no WHERE clause, one
\* LIMIT clause with a value of at most the ceiling, and no parameters.
C6_EmptyFiltersAsClaimed ==
    (/\ Succeeded
     /\ Get(ir, "query_type") \in {PStr("sql"), PStr("hybrid")}
     /\ KnownTable
     /\ Get(ir, "filters") = PList(<<>>))
        => /\ Positions(buildResult.sql, {"WHERE"}) = <<>>
           /\ Len(Positions(buildResult.sql, {"LIMIT"})) = 1
           /\ LimitToken \in NumeralsUpTo(max_limit)
           /\ buildResult.params = <<>>

\* the IR of the example: the filter amount >= 1000000 on tender_project
ExampleIR(d) ==
    /\ Get(d, "table") = PStr("tender_project")
    /\ Get(d, "select") = PList(<<PStr("*")>>)
    /\ Get(d, "filters") =
          PList(<<[field |-> PStr("amount"), op |-> PStr(">="), value |-> PInt(1000000)]>>)
    /\ "limit" \notin DOMAIN d

\* C7 (as claimed): the example IR yields the text with the placeholder "?".
C7_ExampleAsClaimed ==
    (Built /\ ExampleIR(ir) /\ max_limit = 100) =>
        /\ Succeeded
        /\ SqlText(buildResult.sql) =
              "SELECT * FROM tender_project WHERE " \o BQ \o "amount" \o BQ
                  \o " >= ? LIMIT 100"
        /\ buildResult.params = <<PInt(1000000)>>

\* C7 (amended): for the example IR and the ceiling 100 build returns the
\* text SELECT * FROM tender_project WHERE `amount` >= %s LIMIT 100, the
\* placeholder being %s, with the parameters [1000000].
C7_Example ==
    (Built /\ ExampleIR(ir) /\ max_limit = 100) =>
        /\ Succeeded
        /\ SqlText(buildResult.sql) =
              "SELECT * FROM tender_project WHERE " \o BQ \o "amount" \o BQ
                  \o " >= %s LIMIT 100"
        /\ buildResult.params = <<PInt(1000000)>>

\* the example IR has been built
C7_Witness == Built /\ ExampleIR(ir) /\ max_limit = 100 /\ ">=" \in allowed_ops

-----------------------------------------------------------------------------
(* Properties of the Intent Router *)

Routed == routeResult # NotRouted

\* the query holds a word of the given vocabulary
Mentions(vocabulary) == \E i \in 1..Len(query) : query[i] \in vocabulary

\* the vocabularies the rule groups stand for
PolicyVocabulary == {"zhengce", "fuchi", "guifan", "banfa", "tongzhi", "tiaoli"}
TenderVocabulary == {"zhaobiao", "zhongbiao", "toubiao", "xiangmu", "biaoduan"}
SubsidyVocabulary == {"zhengce", "fuchi", "butie", "youhui"}
RuleVocabulary ==
    PolicyVocabulary \cup TenderVocabulary \cup SubsidyVocabulary
        \cup {"yuqing", "koubei", "fumian", "fengxian", "tousu", "yulun"}
        \cup {"gongsi", "qiye", "gongyingshang", "changshang"}
        \cup {"jiage", "baojia", "hangqing", "danjia", "chengben"}

\* C8: a query with a policy keyword and no tender keyword is routed
\* unstructured with the policy intent and the policy entity, on the first
\* call of a router and on every later one, with or without a classifier;
\* the call leaves the router's configuration and classifier as they were.
C8_PolicyRoute ==
    /\ (Routed /\ Mentions(PolicyVocabulary) /\ ~Mentions(TenderVocabulary)) =>
          routeResult = [route |-> "rag", intent |-> "policy_query",
                         entity_type |-> PStr("policy")]
    /\ router_cfg = LoadedRouterCfg
    /\ llm_classifier \in {PNone, Callable}

\* a policy query that also holds an opinion keyword, routed as a later call
\* on a router that has a classifier
C8_Witness ==
    /\ Routed
    /\ calls = 2
    /\ llm_classifier = Callable
    /\ query = <<"guifan", "fengxian">>

\* C9 (as claimed): tender vocabulary together with policy/subsidy vocabulary
\* gives the hybrid route with the tender entity; tender vocabulary without
\* it gives the structured route with the tender entity.
C9_TenderRoutes ==
    (Routed /\ Mentions(TenderVocabulary)) =>
        /\ routeResult.entity_type = PStr("tender")
        /\ routeResult.route =
              IF Mentions(SubsidyVocabulary \cup PolicyVocabulary) THEN "hybrid" ELSE "sql"

\* the route the configured table gives a label, unstructured when it gives none
MappedRoute(label) ==
    LET m == router_cfg["intent_map"]
    IN IF label \in DOMAIN m /\ "route" \in DOMAIN m[label]
          /\ m[label]["route"].s \in {"rag", "sql", "hybrid"}
       THEN m[label]["route"].s
       ELSE IF label \in DOMAIN m /\ "router" \in DOMAIN m[label]
          /\ m[label]["router"].s \in {"rag", "sql", "hybrid"}
       THEN m[label]["router"].s
       ELSE "rag"

\* C10 (as claimed): when no keyword rule matches the query and a classifier
\* is configured, route gives the classifier one prompt, for that query, and
\* returns a route of the intent-to-route table; when a rule matches, the
\* classifier is not called.
C10_ClassifierConsulted ==
    Routed =>
        /\ (~Mentions(RuleVocabulary) /\ llm_classifier # PNone) =>
              /\ Len(llmCalls) = 1
              /\ llmCalls[1].query = query
              /\ routeResult.route \in
                    {MappedRoute(l) : l \in DOMAIN router_cfg["intent_map"]}
        /\ Mentions(RuleVocabulary) => llmCalls = <<>>

\* the intent-to-route table maps the label to one of the three routes
MapsToRoute(label) ==
    LET m == router_cfg["intent_map"]
    IN /\ label \in DOMAIN m
       /\ \/ "route" \in DOMAIN m[label] /\ m[label]["route"].s \in {"rag", "sql", "hybrid"}
          \/ "router" \in DOMAIN m[label] /\ m[label]["router"].s \in {"rag", "sql", "hybrid"}

DeclaredRoutes == {"rag", "sql", "hybrid", "other"}

\* the decision of the generic fallback
GenericFallback == [route |-> "rag", intent |-> "general_query", entity_type |-> PNone]

\* C12: route returns for every query (the empty one and those no rule matches
\* included), with or without a classifier and whatever the classifier would
\* answer: a call is always able to complete, the route of its decision is a
\* declared route value, and for a query no rule matches the decision is the
\* generic fallback.
C12_RouteTotal ==
    /\ ~Routed => ENABLED Route
    /\ Routed =>
          /\ routeResult.route \in DeclaredRoutes
          /\ ~Mentions(RuleVocabulary) => routeResult = GenericFallback

\* the empty query routed on a router that has a classifier
C12_Witness ==
    /\ Routed
    /\ query = <<>>
    /\ llm_classifier = Callable
    /\ routeResult = GenericFallback

OpinionVocabulary == {"yuqing", "koubei", "fumian", "fengxian", "tousu", "yulun"}
CompanyVocabulary == {"gongsi", "qiye", "gongyingshang", "changshang"}
PriceVocabulary == {"jiage", "baojia", "hangqing", "danjia", "chengben"}

OpinionDecision ==
    [route |-> "rag", intent |-> "opinion_query", entity_type |-> PStr("opinion")]

-----------------------------------------------------------------------------
(* Properties of the IR Synthesizer *)

Generated == genResult # NotGenerated

\* what the router returns for the query
RouterDecision == route(query, PNone, router_cfg, NoClassifierReply).result

\* C14 (as claimed): without a client, generate returns an IR whose query_type
\* is the route the router gives the query, whose entity_type is the router's
\* entity category, whose fallback_enabled is true and whose original_query is
\* the query; for the routes sql and hybrid it has the default table, the
\* wildcard select and no filters, for the route rag it has no table, select
\* or filters.
C14_RulePathAsClaimed ==
    (Generated /\ llm_client = PNone) =>
        /\ ~genResult.raised
        /\ genResult.ir["query_type"] = PStr(RouterDecision.route)
        /\ genResult.ir["entity_type"] = RouterDecision.entity_type
        /\ genResult.ir["fallback_enabled"] = PBool(TRUE)
        /\ genResult.ir["original_query"] = PText(query)
        /\ IF RouterDecision.route \in {"sql", "hybrid"}
           THEN /\ genResult.ir["table"] = PStr("tender_project")
                /\ genResult.ir["select"] = PList(<<PStr("*")>>)
                /\ genResult.ir["filters"] = PList(<<>>)
           ELSE /\ genResult.ir["table"] = PNone
                /\ genResult.ir["select"] = PNone
                /\ genResult.ir["filters"] = PNone

\* the client's call raised, or what it returned does not parse as JSON
CallOrParseFailure ==
    llmReply.raises \/ llmReply.raw = PNone \/ llmReply.raw = NotJsonText

\* C15 (as claimed): with a client, no exception leaves generate, whether the
\* call raises, the text is not JSON, or the JSON has not the shape of the IR;
\* after a call or parse failure the IR returned is the one the rule path
\* builds for the query.
C15_NoExceptionAsClaimed ==
    (Generated /\ llm_client = Callable) =>
        /\ ~genResult.raised
        /\ CallOrParseFailure =>
              genResult.ir = UnifiedQueryIR(build_rule_based_ir(query, RouterDecision)).ir

-----------------------------------------------------------------------------
(* Properties of the IR Validators *)

SchemaValidated == schemaResult # NotValidated
BusinessValidated == bizResult # NotValidated

Count(p) == IF p THEN 1 ELSE 0

RECURSIVE SumOf(_)
SumOf(ns) == IF ns = <<>> THEN 0 ELSE Head(ns) + SumOf(Tail(ns))

\* the filters of the IR validated, none when the key is missing
GivenFilters == IF "filters" \in DOMAIN ir THEN ir["filters"] ELSE PList(<<>>)

\* the filters are no sequence, or every entry of the sequence is an object
FilterEntriesAreObjects ==
    GivenFilters.t = "list" => \A i \in 1..Len(GivenFilters.xs) : IsDict(GivenFilters.xs[i])

\* how many of the per-filter checks the filter fails: field missing, operator
\* missing or outside the allowed set, between without a pair of two non-null
\* values, like while fuzzy matching is off
FilterFailures(cond) ==
    LET op == Get(cond, "op")
        value == Get(cond, "value")
        pair == value.t = "list" /\ Len(value.xs) = 2 /\ PNone \notin ListSet(value.xs)
    IN Count(~Truthy(Get(cond, "field")))
       + Count(~Truthy(op) \/ ~InList(op, schema_validator.allowed_ops))
       + Count(op = PStr("between") /\ ~pair)
       + Count(op = PStr("like") /\ ~schema_validator.allow_fuzzy)

\* how many checks of the structural validation the IR fails
StructuralFailures ==
    LET declared == parse_enum(schema_validator.query_type_decl)
    IN Cardinality({f \in ListSet(schema_validator.required_fields) : f \notin DOMAIN ir})
       + Count(declared # <<>> /\ ~InList(Get(ir, "query_type"), declared))
       + (IF GivenFilters.t # "list" THEN 1
          ELSE Count(Len(GivenFilters.xs) > schema_validator.max_filters)
               + SumOf([i \in 1..Len(GivenFilters.xs) |-> FilterFailures(GivenFilters.xs[i])]))

\* C16 (as claimed): validate returns a result that holds one message for
\* every check the IR fails, without stopping at the first, and whose ok is
\* true exactly when no check fails.
C16_AccumulatesAsClaimed ==
    (SchemaValidated /\ FilterEntriesAreObjects) =>
        /\ ~schemaResult.raised
        /\ Len(schemaResult.errors) = StructuralFailures
        /\ schemaResult.ok <=> StructuralFailures = 0

\* the IR names a table the Schema Registry does not hold
UnknownTable ==
    /\ "table" \in DOMAIN ir
    /\ ir["table"].t = "str"
    /\ ir["table"].s \notin DOMAIN tables

\* C17 (as claimed): an IR whose table is not in the Schema Registry does not
\* pass the validation: the result validate returns for it has ok = false.
C17_UnknownTableAsClaimed ==
    (SchemaValidated /\ UnknownTable /\ ~schemaResult.raised) => ~schemaResult.ok

\* C18 (as claimed): every validation yields a result, a validation of the IR
\* that was validated before yields the same ok and the same messages in the
\* same order, and no validation changes the IR or the validators'
\* configuration.
C18_IdempotentAsClaimed ==
    [][ /\ ir' = ir
        /\ schema_validator' = schema_validator
        /\ business_validator' = business_validator
        /\ ~schemaResult'.raised /\ ~bizResult'.raised
        /\ SchemaValidated => schemaResult' = schemaResult
        /\ BusinessValidated => bizResult' = bizResult ]_vars

\* the hints of the IR validated, and their ranges when they are objects
GivenConditions ==
    IF "structured_conditions" \in DOMAIN ir THEN ir["structured_conditions"] ELSE EmptyDict
GivenRange(key) ==
    IF IsDict(GivenConditions) /\ IsDict(Get(GivenConditions, key))
    THEN Get(GivenConditions, key) ELSE EmptyDict

\* the bound of a range as a number, None when it is missing or no number
NumberAt(range, key) ==
    IF IsNumber(Get(range, key)) THEN Get(range, key) ELSE PNone

\* how many conditions of the business validation the IR meets: minimum below
\* the lower bound, maximum above the upper bound, minimum above maximum,
\* start date above end date as strings
BusinessFindings ==
    LET min_v == NumberAt(GivenRange("amount_range"), "min")
        max_v == NumberAt(GivenRange("amount_range"), "max")
        start == Get(GivenRange("date_range"), "publish_start")
        end == Get(GivenRange("date_range"), "publish_end")
    IN Count(min_v # PNone /\ NumVal(min_v) < business_validator.amount_min)
       + Count(max_v # PNone /\ NumVal(max_v) > business_validator.amount_max)
       + Count(min_v # PNone /\ max_v # PNone /\ NumVal(min_v) > NumVal(max_v))
       + Count(Truthy(start) /\ Truthy(end) /\ StrGreater(PyStr(start), PyStr(end)))

\* C19 (as claimed): validate_ir never raises and never changes the IR; its
\* result holds one warning for every condition the IR meets, and its ok is
\* true exactly when there is no warning.
C19_WarnsOnlyAsClaimed ==
    BusinessValidated =>
        /\ ~bizResult.raised
        /\ Len(bizResult.warnings) = BusinessFindings
        /\ bizResult.ok <=> BusinessFindings = 0

-----------------------------------------------------------------------------
(* Properties of the Confidence Fuser *)

Evaluated == confResult # NotEvaluated

\* the largest number of a non-empty set
MaxOf(S) == CHOOSE m \in S : \A n \in S : n <= m

\* the sub-scores present: the largest retrieval score, the largest re-rank
\* score, and the row count as min(1.0, max(0, count) / 50), in hundredths
PresentScores ==
    (IF Truthy(confInput.retriever_scores)
     THEN {MaxOf(ListSet(confInput.retriever_scores.xs))} ELSE {})
    \cup
    (IF Truthy(confInput.reranker_scores)
     THEN {MaxOf(ListSet(confInput.reranker_scores.xs))} ELSE {})
    \cup
    (IF confInput.sql_row_count # PNone
     THEN LET rows == MaxOf({0, confInput.sql_row_count.n})
          IN {IF 2 * rows < 100 THEN 2 * rows ELSE 100}
     ELSE {})

FusedScore == IF PresentScores = {} THEN 0 ELSE MaxOf(PresentScores)

\* C20 (as claimed): evaluate returns the largest of the sub-scores present,
\* 0.0 when there is none, and accepts exactly when that score is at least
\* the threshold; retrieval scores [0.9] alone with the threshold 0.7 give
\* the score 0.9, accepted.
C20_FusedScoreAsClaimed ==
    Evaluated =>
        /\ ~confResult.raised
        /\ confResult.score = FusedScore
        /\ confResult.is_confident <=> FusedScore >= threshold
        /\ (confInput = ConfidenceInput(PList(<<90>>), PNone, PNone)
            /\ threshold = DefaultThreshold)
              => confResult.score = 90 /\ confResult.is_confident

\* the score of a row count: min(1.0, max(0, count) / 50), in hundredths
RowScore(count) ==
    LET rows == MaxOf({0, count}) IN IF 2 * rows < 100 THEN 2 * rows ELSE 100

\* only a row count is supplied
OnlyRows ==
    /\ confInput.retriever_scores = PNone
    /\ confInput.reranker_scores = PNone
    /\ confInput.sql_row_count # PNone

\* C21 (as claimed): with a row count alone, evaluate returns the score
\* min(1, max(0, count) / 50): 0 for a count of zero or less, exactly 1 for a
\* count of 50 or more, never less than the score of a smaller count; a count
\* of 0 with the threshold 0.7 gives the score 0.0, not accepted.
C21_RowScoreAsClaimed ==
    (Evaluated /\ OnlyRows) =>
        LET count == confInput.sql_row_count.n
        IN /\ ~confResult.raised
           /\ confResult.score = RowScore(count)
           /\ count <= 0 => confResult.score = 0
           /\ count >= 50 => confResult.score = 100
           /\ \A smaller \in {n.n : n \in RowCountOpts \ {PNone}} :
                 smaller <= count => RowScore(smaller) <= confResult.score
           /\ (count = 0 /\ threshold = DefaultThreshold)
                 => confResult.score = 0 /\ ~confResult.is_confident

\* the sub-score of a signal: the largest score of a list, the score of a
\* row count; none when the signal is missing (or the list empty)
SubScoreOf(signal, key) ==
    IF key = "sql_row_count"
    THEN (IF signal = PNone THEN {} ELSE {RowScore(signal.n)})
    ELSE (IF Truthy(signal) THEN {MaxOf(ListSet(signal.xs))} ELSE {})

SignalKeys == {"retriever_scores", "reranker_scores", "sql_row_count"}

\* b differs from a only in that one sub-score present in both is larger in b
OneSubScoreLarger(a, b) ==
    \E key \in SignalKeys :
        /\ \A other \in SignalKeys \ {key} : a[other] = b[other]
        /\ SubScoreOf(a[key], key) # {} /\ SubScoreOf(b[key], key) # {}
        /\ MaxOf(SubScoreOf(a[key], key)) < MaxOf(SubScoreOf(b[key], key))

\* C22 (as claimed): when the signals evaluated are replaced by signals that
\* differ only in one larger sub-score, evaluate returns a score that is not
\* lower, and accepts if it accepted before.
C22_MonotonicAsClaimed ==
    Evaluated =>
        \A larger \in ConfidenceInputs :
            OneSubScoreLarger(confInput, larger) =>
                LET second == evaluate(larger, threshold)
                IN /\ ~confResult.raised /\ ~second.raised
                   /\ confResult.score <= second.score
                   /\ confResult.is_confident => second.is_confident

\* C23 (as claimed): for all lists of scores, scores below 0 and above 1
\* included, and every row count, evaluate returns a decision whose score
\* lies in [0, 1].
C23_ScoreInUnitIntervalAsClaimed ==
    Evaluated =>
        /\ ~confResult.raised
        /\ confResult.score \in 0..100

-----------------------------------------------------------------------------
(* Properties of the Answer Generator *)

Answered == answerResult # NotAnswered

\* C24: when the decision handed to AnswerGenerator.generate is not to
\* accept, the answer has the configured uncertainty response as its text,
\* the client was not called, and the answer carries every citation handed
\* over; the client is called only when the decision is to accept.
C24_LowConfidenceGate ==
    Answered =>
        /\ ~answerInput.is_confident =>
              /\ answerResult.text = uncertainty_response
              /\ answerCalls = <<>>
        /\ answerResult.citations = answerInput.citations
        /\ answerCalls # <<>> => answerInput.is_confident

\* a rejected decision with two citations: the fixed response, both citations
C24_Witness ==
    /\ Answered
    /\ ~answerInput.is_confident
    /\ Len(answerInput.citations) = 2
    /\ answerResult.text = uncertainty_response
    /\ answerResult.citations = answerInput.citations

-----------------------------------------------------------------------------
(* Properties of the read-only executor *)

Executed == execResult # NotExecuted

\* the statement as the check reads it
CheckedText == str_lower(str_strip(statement.sql))

BeginsWithAllowedCommand ==
    \E i \in 1..Len(sql_executor.allowed_commands) :
        str_startswith(CheckedText, sql_executor.allowed_commands[i])

HoldsForbiddenKeyword ==
    \E i \in 1..Len(sql_executor.forbidden_keywords) :
        str_contains(CheckedText, sql_executor.forbidden_keywords[i])

-----------------------------------------------------------------------------
(* Properties of the external calls *)

\* what generate gives for the query on the rule path
RulePathOutcome ==
    generate(query, PNone, NotCalled, router_cfg, schema_validator, business_validator)

\* C27: within a call of route or of _safe_llm_classify the classifier is
\* called at most once, within a call of generate the client is called at
\* most once; when the client's call raised, generate called it once and gives
\* what the rule path gives.
C27_NoRetry ==
    /\ Len(llmCalls) <= 1
    /\ clientCalls <= 1
    /\ (Generated /\ llm_client = Callable /\ llmReply.raises) =>
          /\ clientCalls = 1
          /\ genResult = RulePathOutcome

\* the classifier's call and the client's call both raised, each made once
C27_Witness ==
    /\ llmLabel = PNone
    /\ Len(llmCalls) = 1
    /\ Generated
    /\ llm_client = Callable
    /\ llmReply.raises
    /\ clientCalls = 1
    /\ ~genResult.raised

-----------------------------------------------------------------------------
(* Properties of the IR Synthesizer and the validators together *)

\* the dict generate built for the query
BuiltIR ==
    IF llm_client = PNone THEN build_rule_based_ir(query, RouterDecision)
    ELSE build_llm_ir(query, RouterDecision, llmReply)

\* the dict has the fields of the IR, with filters and hints of the types the
\* validators read
WellFormedIR ==
    /\ ~UnifiedQueryIR(BuiltIR).raised
    /\ IsDict(BuiltIR["structured_conditions"])
    /\ ("filters" \in DOMAIN BuiltIR /\ BuiltIR["filters"].t = "list") =>
          \A i \in 1..Len(BuiltIR["filters"].xs) : IsDict(BuiltIR["filters"].xs[i])

\* C28 (as claimed): generate returns the IR it built, whether or not the
\* structural validation reported failures or the business validation
\* warnings.
C28_ValidationNotBlockingAsClaimed ==
    (Generated /\ WellFormedIR) =>
        /\ ~genResult.raised
        /\ genResult.ir = UnifiedQueryIR(BuiltIR).ir

-----------------------------------------------------------------------------
(* Properties of the Query Synthesizer and the structural validator together *)

\* build emitted a clause for the filter
Emitted(f) ==
    /\ Succeeded
    /\ filter_clause(f, ensure_table(tables, ir["table"]).ts, allowed_ops).emit

\* the value of the filter is a pair without a null
NonNullPair(f) == PairValue(f) /\ PNone \notin ListSet(f["value"].xs)

\* C29 (as claimed): every filter build emits a clause for has an allowed
\* operator, is no like filter while fuzzy search is disabled, carries a pair
\* of two non-null values if it is a between filter, and is a filter the
\* structural validator has no message for.
C29_EmittedFiltersValidAsClaimed ==
    \A i \in 1..Len(IrFilters) :
        LET f == IrFilters[i]
        IN Emitted(f) =>
              /\ OpAllowed(f)
              /\ ~(IsLike(f) /\ ~schema_validator.allow_fuzzy)
              /\ IsBetween(f) => NonNullPair(f)
              /\ filter_errors(f, i - 1, schema_validator) = <<>>

-----------------------------------------------------------------------------
(* Properties of the request pipeline *)

\* the request has been routed, and into the SQL path or not
RoutedTo(r, routes) == r.pc # "route" /\ r.route_result.route \in routes
SqlRouted(r) == RoutedTo(r, {Route_SQL, Route_HYBRID})

\* build has been or is about to be called for the request
AtBuild(r) == r.pc \in {"build", "execute"} \/ r.sql_build # NotBuilt

\* the request is past the SQL path
PastSqlPath(r) == r.pc \in {"evaluate", "answer"} \/ r.conf_result # NotEvaluated

\* the IR the rule path makes for the SQL path
DefaultSqlIR(d) ==
    /\ d["table"] = PStr("tender_project")
    /\ d["select"] = PList(<<PStr("*")>>)
    /\ d["filters"] = PList(<<>>)

\* SELECT * on the default table, limited to the ceiling, without WHERE
DefaultTokens == <<"SELECT", "*", "FROM", "tender_project", "LIMIT", ToString(max_limit)>>

MissingTable == "ValueError: IR missing 'table' field for SQL generation."

\* C30: a request routed sql or hybrid reaches build with an IR that names
\* the default table, selects the wildcard and has no filters; build does not
\* fail for a missing table; what build returns and what the executor is
\* handed is SELECT * on the default table limited to the ceiling, without
\* WHERE and without parameters; such a request does not get to evaluate
\* without the executor having been handed the statement; a request routed
\* rag never gets to build or to the executor.
C30_SqlPathStatement ==
    \A i \in 1..Len(requests) :
        LET r == requests[i]
        IN /\ AtBuild(r) => SqlRouted(r) /\ DefaultSqlIR(r.ir_obj.ir)
           /\ r.error # MissingTable
           /\ r.sql_build # NotBuilt =>
                 /\ r.sql_build.status = "ok"
                 /\ r.sql_build.sql = DefaultTokens
                 /\ "WHERE" \notin ListSet(r.sql_build.sql)
                 /\ r.sql_build.params = <<>>
           /\ r.handed # <<>> =>
                 /\ SqlRouted(r)
                 /\ r.handed = <<[sql |-> DefaultStatement, params |-> <<>>]>>
           /\ \A k \in 1..Len(r.sent) : r.sent[k] = [sql |-> DefaultStatement, params |-> <<>>]
           /\ (SqlRouted(r) /\ PastSqlPath(r)) => r.handed # <<>>
           /\ RoutedTo(r, {Route_RAG}) =>
                 ~AtBuild(r) /\ r.handed = <<>> /\ r.sent = <<>>

\* one request routed into the SQL path has had its statement executed and
\* got rows, another, routed rag, has got its IR and been through evaluate
C30_Witness ==
    \E i, j \in 1..Len(requests) :
        /\ SqlRouted(requests[i])
        /\ requests[i].sent # <<>>
        /\ requests[i].sql_rows # <<>>
        /\ RoutedTo(requests[j], {Route_RAG})
        /\ requests[j].ir_obj # NotGenerated
        /\ requests[j].conf_result # NotEvaluated

\* what the components return for a query when no other request is served
AloneRoute(qry) == route(qry, llm_classifier, router_cfg, NoClassifierReply).result
AloneIR(qry) ==
    generate(qry, llm_client, NotCalled, router_cfg, schema_validator, business_validator)
AloneBuild(qry) == build(AloneIR(qry).ir, tables, allowed_ops, max_limit)
AloneConfidence(r) == evaluate(conf_input_of(r.rag_docs, r.sql_rows), threshold)

\* the results a request holds are those of its own query
OwnResults(r) ==
    /\ r.pc # "route" => r.route_result = AloneRoute(r.query)
    /\ r.pc \notin {"route", "generate"} =>
          LET g == AloneIR(r.query)
          IN IF g.raised
             THEN r.pc = "failed" /\ r.error = g.error /\ r.ir_obj = NotGenerated
             ELSE r.ir_obj = g
    /\ r.sql_build # NotBuilt =>
          LET b == AloneBuild(r.query)
          IN /\ r.sql_build = b
             /\ r.handed # <<>> => r.handed = <<[sql |-> Spell(b.sql), params |-> b.params]>>
    /\ r.conf_result # NotEvaluated =>
          /\ r.conf_result = AloneConfidence(r)
          /\ r.conf_input = conf_input_of(r.rag_docs, r.sql_rows)

\* the registry and the policy configuration of the components
LoadedConfiguration ==
    <<tables, allowed_ops, max_limit, router_cfg, llm_classifier, schema_validator,
      business_validator, llm_client, threshold, sql_executor, uncertainty_response>>

\* C26: whatever the interleaving of the steps of the requests, every request
\* holds the route, the IR or validation failure, the statement and the
\* confidence outcome its own query gets when it is served alone, the
\* registry is the loaded one, and no step changes the registry or the
\* configuration of a component.
C26_NoInterference ==
    /\ [](/\ tables = LoadedTables
          /\ \A i \in 1..Len(requests) : OwnResults(requests[i]))
    /\ [][LoadedConfiguration' = LoadedConfiguration]_vars

\* the second request, with another query and another route, has been through
\* evaluate while the first, which arrived before it, is still waiting for
\* the executor
C26_Witness ==
    /\ Len(requests) >= 2
    /\ requests[1].query # requests[2].query
    /\ requests[1].route_result.route = Route_SQL
    /\ requests[1].pc = "execute"
    /\ requests[2].route_result.route = Route_HYBRID
    /\ requests[2].rag_docs # <<>>
    /\ requests[2].sql_rows # <<>>
    /\ requests[2].conf_result # NotEvaluated

====
